---- MODULE Spec2Model ----
(***************************************************************************)
(* CodeChronicle: the source-export injection (App.tsx,                    *)
(* injectNotesIntoCode), the note layout pass (NoteArea.tsx,               *)
(* positionedNotes), the editor/notes scroll synchronisation (App.tsx,     *)
(* handleEditorScroll / handleNoteAreaScroll), the comment syntax table    *)
(* (getCommentSyntax), the note handlers of the App, the notes file        *)
(* (fileHandleService.ts), its debounced save, and the toasts raised by    *)
(* the I/O of the user's actions.                                          *)
(*                                                                         *)
(* Texts are TLA+ strings; String.split, Array.join, the template literals *)
(* and Array.sort are computed character by character / element by         *)
(* element as the JavaScript does.                                         *)
(***************************************************************************)
EXTENDS Integers, Sequences, FiniteSets, Bags, TLC

VARIABLES
    expContent,     \* injectNotesIntoCode: argument `content`
    expNotes,       \* injectNotesIntoCode: argument `fileNotes`
    expFilename,    \* injectNotesIntoCode: argument `filename`
    expResult,      \* the string injectNotesIntoCode returned
    expDone,        \* TRUE once the export has run
    layNotes,       \* NoteArea: prop `notes`
    layLineHeight,  \* NoteArea: prop `editorLineHeight`
    layPositions,   \* NoteArea: the memoised `positionedNotes`
    layNextId,      \* the next note created gets this id
    isSyncingFromEditor,  \* App: isSyncingFromEditor.current
    isSyncingFromNotes,   \* App: isSyncingFromNotes.current
    editorRef,      \* App: editorRef.current: "null", or a "live" or "disposed" editor
    editorTop,      \* the editor's scrollTop
    notesTop,       \* the note pane's scrollTop
    editorMax,      \* the editor's largest scrollTop
    notesMax,       \* the note pane's largest scrollTop
    notesEvent,     \* causes of the note pane's pending scroll event; {} when none
    obs,            \* what the last step did: its event and its writes
    fileSwitched,   \* history: the activeFileId effect has run
    synFilename,    \* getCommentSyntax: argument `filename`
    synResult,      \* the {start, end} getCommentSyntax returned
    synDone,        \* TRUE once getCommentSyntax has returned
    appNotes,       \* App: state `notes`
    appFiles,       \* App: state `files`, as file id -> content
    activeFileId,   \* App: state `activeFileId`; "" when no file is active
    selection,      \* App: state `selection`
    isReadOnly,     \* App: state `isReadOnly`
    now,            \* Date.now()
    editorProps,    \* the App render whose handlers the mounted editor holds
    appObs,         \* what the last step did
    ldFile,         \* .code-chronicle.json of the directory being opened
    ldResult,       \* what loadNotesFromConfig resolved to
    ldDone,         \* TRUE once loadNotesFromConfig has settled
    isLocalMode,    \* App: state `isLocalMode`
    rootHandle,     \* App: state `rootHandle`; "none" for null
    svNotes,        \* App: state `notes`, each note written as a number
    lsNotes,        \* App: `lsNotes`, the notes kept in localStorage
    svTimers,       \* the pending setTimeout callbacks, oldest first
    svWrites,       \* the writeFileText calls in progress, a bag
    svDisk,         \* .code-chronicle.json of each directory
    svNextId,       \* the next note created is this number
    svHist,         \* history: the bursts of changes, the last edit of each workspace
    svObs,          \* what the last step did
    ioToasts,       \* the toasts the Toaster shows, oldest first
    ioObs,          \* what the last step did: its I/O outcome, its toast, its console line
    clApp,          \* App: the workspace state, the mode and the localStorage copies
    clFetches,      \* the fetchRepoContents calls issued
    clObs,          \* what the last step did
    lzLocal,        \* App: state `isLocalMode` while files are loaded lazily
    lzFiles,        \* App: state `files`: each file's content, the folder's isOpen
    lzActive,       \* App: state `activeFileId`
    lzLoads,        \* the handleFileSelect calls awaiting their content
    lzExpect        \* history: the tree with every change so far applied to it

exportVars == <<expContent, expNotes, expFilename, expResult, expDone>>

layoutVars == <<layNotes, layLineHeight, layPositions, layNextId>>

scrollVars == <<isSyncingFromEditor, isSyncingFromNotes, editorRef, editorTop,
                notesTop, editorMax, notesMax, notesEvent, obs, fileSwitched>>

syntaxVars == <<synFilename, synResult, synDone>>

appVars == <<appNotes, appFiles, activeFileId, selection, isReadOnly, now,
             editorProps, appObs>>

loadVars == <<ldFile, ldResult, ldDone>>

saveVars == <<isLocalMode, rootHandle, svNotes, lsNotes, svTimers, svWrites,
              svDisk, svNextId, svHist, svObs>>

ioVars == <<ioToasts, ioObs>>

cloneVars == <<clApp, clFetches, clObs>>

lazyVars == <<lzLocal, lzFiles, lzActive, lzLoads, lzExpect>>

vars == <<exportVars, layoutVars, scrollVars, syntaxVars, appVars, loadVars,
          saveVars, ioVars, cloneVars, lazyVars>>

\* What the actions of one component leave alone.
notExportVars ==
    <<layoutVars, scrollVars, syntaxVars, appVars, loadVars, saveVars, ioVars,
      cloneVars, lazyVars>>

notLayoutVars ==
    <<exportVars, scrollVars, syntaxVars, appVars, loadVars, saveVars, ioVars,
      cloneVars, lazyVars>>

notScrollVars ==
    <<exportVars, layoutVars, syntaxVars, appVars, loadVars, saveVars, ioVars,
      cloneVars, lazyVars>>

notSyntaxVars ==
    <<exportVars, layoutVars, scrollVars, appVars, loadVars, saveVars, ioVars,
      cloneVars, lazyVars>>

notAppVars ==
    <<exportVars, layoutVars, scrollVars, syntaxVars, loadVars, saveVars, ioVars,
      cloneVars, lazyVars>>

notLoadVars ==
    <<exportVars, layoutVars, scrollVars, syntaxVars, appVars, saveVars, ioVars,
      cloneVars, lazyVars>>

notSaveVars ==
    <<exportVars, layoutVars, scrollVars, syntaxVars, appVars, loadVars, ioVars,
      cloneVars, lazyVars>>

notIoVars ==
    <<exportVars, layoutVars, scrollVars, syntaxVars, appVars, loadVars, saveVars,
      cloneVars, lazyVars>>

notCloneVars ==
    <<exportVars, layoutVars, scrollVars, syntaxVars, appVars, loadVars, saveVars,
      ioVars, lazyVars>>

notLazyVars ==
    <<exportVars, layoutVars, scrollVars, syntaxVars, appVars, loadVars, saveVars,
      ioVars, cloneVars>>

---------------------------------------------------------------------------
(* Bounds of the model.                                                    *)

\* Longest source text, in lines.
MaxLines == 3

\* Most annotations handed to one injection.
MaxNotes == 2

\* Most notes created in the note area.
MaxCards == 3

\* Last line a card may be anchored to.
MaxStartLine == 4

\* Largest scroll offset of a pane.
MaxScroll == 2

\* Most notes the App holds.
MaxAppNotes == 2

\* Last line of a file open in the App.
MaxAppLine == 1

\* Last value of the clock.
MaxNow == 2

\* Most notes in a stored notes file, and the largest note in one.
MaxStoredNotes == 3

MaxStoredId == 3

\* Most notes the App holds while saving, the last note created there, and
\* most writes in progress.
MaxSaveNotes == 1

MaxSaveId == 2

MaxWrites == 2

\* Most toasts the Toaster shows at once.
MaxToasts == 3

\* Most revisions of the notes, and most fetches of a repository.
MaxRevisions == 2

MaxFetches == 2

\* Most content loads in flight at once.
MaxLoads == 2

---------------------------------------------------------------------------
(* JavaScript string and array primitives.                                 *)

\* The i-th character of s, as a one-character string.
CharAt(s, i) == SubSeq(s, i, i)

\* String.prototype.split with a one-character separator: the pieces between
\* consecutive separators, so that "" splits to <<"">> and n separators give
\* n + 1 pieces.
Split(s, sep) ==
    LET seps   == {i \in 1..Len(s) : CharAt(s, i) = sep}
        n      == Cardinality(seps)
        pos(k) == IF k = 0 THEN 0
                  ELSE IF k = n + 1 THEN Len(s) + 1
                  ELSE CHOOSE i \in seps : Cardinality({j \in seps : j < i}) = k - 1
    IN  [k \in 1..(n + 1) |-> SubSeq(s, pos(k - 1) + 1, pos(k) - 1)]

RECURSIVE Join(_, _)
\* Array.prototype.join: no separator after the last element, "" for [].
Join(seq, sep) ==
    IF Len(seq) = 0 THEN ""
    ELSE IF Len(seq) = 1 THEN seq[1]
    ELSE seq[1] \o sep \o Join(Tail(seq), sep)

StartsWith(s, p) == Len(s) >= Len(p) /\ SubSeq(s, 1, Len(p)) = p

EndsWith(s, p) == Len(s) >= Len(p) /\ SubSeq(s, Len(s) - Len(p) + 1, Len(s)) = p

\* The lower-case form of one character: A-Z map to a-z, any other
\* character to itself.
LowerChar(c) ==
    CASE c = "A" -> "a" [] c = "B" -> "b" [] c = "C" -> "c" [] c = "D" -> "d"
      [] c = "E" -> "e" [] c = "F" -> "f" [] c = "G" -> "g" [] c = "H" -> "h"
      [] c = "I" -> "i" [] c = "J" -> "j" [] c = "K" -> "k" [] c = "L" -> "l"
      [] c = "M" -> "m" [] c = "N" -> "n" [] c = "O" -> "o" [] c = "P" -> "p"
      [] c = "Q" -> "q" [] c = "R" -> "r" [] c = "S" -> "s" [] c = "T" -> "t"
      [] c = "U" -> "u" [] c = "V" -> "v" [] c = "W" -> "w" [] c = "X" -> "x"
      [] c = "Y" -> "y" [] c = "Z" -> "z" [] OTHER -> c

RECURSIVE toLowerCase(_)
\* String.prototype.toLowerCase.
toLowerCase(s) ==
    IF Len(s) = 0 THEN ""
    ELSE LowerChar(CharAt(s, 1)) \o toLowerCase(SubSeq(s, 2, Len(s)))

RECURSIVE InsertSorted_tiesReversed(_, _, _)
\* As InsertSorted, with >= for >: equal elements end up in reverse input order.
InsertSorted_tiesReversed(x, sorted, dir) ==
    IF Len(sorted) = 0 THEN <<x>>
    ELSE IF dir * (sorted[1].startLine - x.startLine) >= 0
         THEN <<x>> \o sorted
         ELSE <<sorted[1]>> \o InsertSorted_tiesReversed(x, Tail(sorted), dir)

RECURSIVE InsertSorted(_, _, _)
\* x goes after every element that does not compare greater than it.
InsertSorted(x, sorted, dir) ==
    IF Len(sorted) = 0 THEN <<x>>
    ELSE IF dir * (sorted[1].startLine - x.startLine) > 0
         THEN <<x>> \o sorted
         ELSE <<sorted[1]>> \o InsertSorted(x, Tail(sorted), dir)

RECURSIVE SortByStartLine(_, _)
\* [...notes].sort((a, b) => dir * (a.startLine - b.startLine)): Array.sort is
\* stable, elements that compare equal keep their input order.
SortByStartLine(notes, dir) ==
    IF Len(notes) = 0 THEN <<>>
    ELSE InsertSorted(notes[Len(notes)],
                      SortByStartLine(SubSeq(notes, 1, Len(notes) - 1), dir), dir)

---------------------------------------------------------------------------
(* Source export: getCommentSyntax and injectNotesIntoCode.                *)

\* As getCommentSyntax, without toLowerCase.
getCommentSyntax_caseSensitive(filename) ==
    LET parts == Split(filename, ".")
        ext   == parts[Len(parts)]
    IN  CASE ext \in {"html", "xml", "svg"} -> [start |-> "<!--", end |-> "-->"]
          [] ext = "css" -> [start |-> "/*", end |-> "*/"]
          [] ext \in {"py", "sh", "yaml", "yml", "dockerfile"} ->
                 [start |-> "#", end |-> ""]
          [] OTHER -> [start |-> "//", end |-> ""]

getCommentSyntax(filename) ==
    LET parts == Split(filename, ".")
        ext   == toLowerCase(parts[Len(parts)])
    IN  CASE ext \in {"html", "xml", "svg"} -> [start |-> "<!--", end |-> "-->"]
          [] ext = "css" -> [start |-> "/*", end |-> "*/"]
          [] ext \in {"py", "sh", "yaml", "yml", "dockerfile"} ->
                 [start |-> "#", end |-> ""]
          [] OTHER -> [start |-> "//", end |-> ""]

\* As HeaderLine, without the opening comment delimiter.
HeaderLine_noStart(syn, note) ==
    " ------------------ NOTE (L" \o ToString(note.startLine)
        \o ") ------------------ " \o syn.end

\* The header line of a note's block.
HeaderLine(syn, note) ==
    syn.start \o " ------------------ NOTE (L" \o ToString(note.startLine)
              \o ") ------------------ " \o syn.end

\* One '[NOTE]' line per line of the note's content.
FormattedNote(syn, note) ==
    LET noteLines == Split(note.content, "\n")
    IN  [k \in 1..Len(noteLines) |->
            syn.start \o " [NOTE] " \o noteLines[k]
                \o (IF syn.end # "" THEN " " \o syn.end ELSE "")]

FooterLine(syn) ==
    syn.start \o " ----------------------------------------------------------- "
              \o syn.end

\* What the forEach body pushes onto injections[lineIdx] for one note.
NoteBlock(syn, note) ==
    <<HeaderLine(syn, note)>> \o FormattedNote(syn, note) \o <<FooterLine(syn)>>

RECURSIVE BuildInjections(_, _, _)
\* The forEach over sortedNotes: injections maps a 0-based line index to the
\* comment lines pushed for it, in the order the notes are visited. An index no
\* note names is absent from the map.
BuildInjections(syn, sortedNotes, injections) ==
    IF Len(sortedNotes) = 0 THEN injections
    ELSE LET note    == sortedNotes[1]
             lineIdx == note.startLine - 1
             before  == IF lineIdx \in DOMAIN injections
                        THEN injections[lineIdx] ELSE <<>>
             after   == before \o NoteBlock(syn, note)
         IN  BuildInjections(syn, Tail(sortedNotes),
                 [i \in DOMAIN injections \cup {lineIdx} |->
                     IF i = lineIdx THEN after ELSE injections[i]])

RECURSIVE Rebuild_replacesLine(_, _, _)
\* As Rebuild, but a line that has injections is replaced by them.
Rebuild_replacesLine(lines, injections, i) ==
    IF i >= Len(lines) THEN <<>>
    ELSE (IF i \in DOMAIN injections THEN injections[i] ELSE <<lines[i + 1]>>)
         \o Rebuild_replacesLine(lines, injections, i + 1)

RECURSIVE Rebuild_injectionsAfter(_, _, _)
\* As Rebuild, but the injections of i are pushed after lines[i].
Rebuild_injectionsAfter(lines, injections, i) ==
    IF i >= Len(lines) THEN <<>>
    ELSE <<lines[i + 1]>>
         \o (IF i \in DOMAIN injections THEN injections[i] ELSE <<>>)
         \o Rebuild_injectionsAfter(lines, injections, i + 1)

RECURSIVE Rebuild(_, _, _)
\* for (i = 0; i < lines.length; i++): the injections of i, then lines[i].
Rebuild(lines, injections, i) ==
    IF i >= Len(lines) THEN <<>>
    ELSE (IF i \in DOMAIN injections THEN injections[i] ELSE <<>>)
         \o <<lines[i + 1]>> \o Rebuild(lines, injections, i + 1)

injectNotesIntoCode_emptyOnNoNotes(content, fileNotes, filename) ==
    IF Len(fileNotes) = 0 THEN ""
    ELSE LET lines       == Split(content, "\n")
             syn         == getCommentSyntax(filename)
             sortedNotes == SortByStartLine(fileNotes, -1)
             injections  == BuildInjections(syn, sortedNotes, <<>>)
         IN  Join(Rebuild(lines, injections, 0), "\n")

injectNotesIntoCode(content, fileNotes, filename) ==
    IF Len(fileNotes) = 0 THEN content
    ELSE LET lines       == Split(content, "\n")
             syn         == getCommentSyntax(filename)
             sortedNotes == SortByStartLine(fileNotes, -1)
             injections  == BuildInjections(syn, sortedNotes, <<>>)
         IN  Join(Rebuild(lines, injections, 0), "\n")

---------------------------------------------------------------------------
(* Inputs of the export.                                                   *)

\* A Note record (types.ts).
Note(id, fileId, startLine, endLine, content, isExpanded) ==
    [id |-> id, fileId |-> fileId, startLine |-> startLine, endLine |-> endLine,
     content |-> content, isExpanded |-> isExpanded, createdAt |-> id]

\* The plain text of line i.
PlainLine(i) == CASE i = 1 -> "a" [] i = 2 -> "b" [] i = 3 -> "c" [] OTHER -> "d"

\* Every line of a source text is its plain line or a line that reads like an
\* injected '[NOTE]' line of a .js file.
SourceLineSeqs ==
    UNION {{[i \in 1..n |-> IF i \in marked THEN "// [NOTE] a" ELSE PlainLine(i)]
               : marked \in SUBSET (1..n)} : n \in 1..MaxLines}

Contents == {""} \cup {Join(ls, "\n") : ls \in SourceLineSeqs}

Filenames == {"m.js", "m.CSS"}

NoteContents == {"hi", "p\nq"}

\* Anchors: the first two lines, and one line past the end of the longest text.
StartLines == {1, 2, MaxLines + 1}

ExportInit ==
    /\ expContent \in Contents
    /\ expFilename \in Filenames
    /\ expNotes = <<>>
    /\ expResult = ""
    /\ expDone = FALSE

\* One more note of the exported file; its id follows creation order.
ExportAddNote ==
    /\ ~expDone
    /\ Len(expNotes) < MaxNotes
    /\ \E sl \in StartLines, c \in NoteContents :
          expNotes' = Append(expNotes,
                             Note(Len(expNotes) + 1, "f", sl, sl, c, TRUE))
    /\ UNCHANGED <<expContent, expFilename, expResult, expDone>>
    /\ UNCHANGED notExportVars

\* handleExportSource.processNode: the file's text with its notes injected.
ExportSource ==
    /\ ~expDone
    /\ expResult' = injectNotesIntoCode(expContent, expNotes, expFilename)
    /\ expDone' = TRUE
    /\ UNCHANGED <<expContent, expNotes, expFilename>>
    /\ UNCHANGED notExportVars

ExportNext == ExportAddNote \/ ExportSource

---------------------------------------------------------------------------
(* Note layout: NoteArea's positionedNotes.                                *)

GAP == 20

PADDING_TOP == 16

\* `let lastBottom = -1` before the first card.
InitialLastBottom == -1

ExpandedHeight == 200

CollapsedHeight == 60

\* As estimatedHeight, every card taken for an expanded one.
estimatedHeight_alwaysExpanded(note) == ExpandedHeight

\* note.isExpanded ? 200 : 60
estimatedHeight(note) == IF note.isExpanded THEN ExpandedHeight ELSE CollapsedHeight

\* As StackedTop, with the gap forgotten: a card may touch the previous one.
StackedTop_noGap(idealTop, lastBottom) ==
    IF idealTop < lastBottom THEN lastBottom ELSE idealTop

\* if (idealTop < lastBottom + GAP) idealTop = lastBottom + GAP
StackedTop(idealTop, lastBottom) ==
    IF idealTop < lastBottom + GAP THEN lastBottom + GAP ELSE idealTop

RECURSIVE PlaceCards(_, _, _)
\* sorted.forEach: each card at its ideal top or stacked under the previous
\* one, lastBottom carried along.
PlaceCards(sorted, lastBottom, editorLineHeight) ==
    IF Len(sorted) = 0 THEN <<>>
    ELSE LET note     == sorted[1]
             idealTop == StackedTop((note.startLine - 1) * editorLineHeight
                                        + PADDING_TOP, lastBottom)
         IN  <<[note |-> note, top |-> idealTop]>>
             \o PlaceCards(Tail(sorted), idealTop + estimatedHeight(note),
                           editorLineHeight)

\* As positionedNotes, without the sort: cards are placed in input order.
positionedNotes_unsorted(notes, editorLineHeight) ==
    PlaceCards(notes, InitialLastBottom, editorLineHeight)

positionedNotes(notes, editorLineHeight) ==
    PlaceCards(SortByStartLine(notes, 1), InitialLastBottom, editorLineHeight)

\* The app renders NoteArea with editorLineHeight={24}; the component takes
\* any number.
LineHeights == {24, 100}

CardLines == 1..MaxStartLine

LayoutInit ==
    /\ layNotes = <<>>
    /\ layLineHeight \in LineHeights
    /\ layPositions = positionedNotes(<<>>, layLineHeight)
    /\ layNextId = 1

\* NoteArea re-renders with `notes`: useMemo recomputes positionedNotes.
LayoutRender(notes) ==
    /\ layNotes' = notes
    /\ layPositions' = positionedNotes(notes, layLineHeight)
    /\ UNCHANGED layLineHeight

\* The parent appended a new, expanded note.
LayoutNoteAdded ==
    /\ layNextId <= MaxCards
    /\ \E sl \in CardLines :
          LayoutRender(Append(layNotes,
                              Note(layNextId, "f", sl, sl, "", TRUE)))
    /\ layNextId' = layNextId + 1
    /\ UNCHANGED notLayoutVars

\* The parent flipped one note's isExpanded.
LayoutNoteToggled ==
    /\ \E i \in 1..Len(layNotes) :
          LayoutRender([layNotes EXCEPT ![i].isExpanded = ~layNotes[i].isExpanded])
    /\ UNCHANGED <<layNextId, notLayoutVars>>

\* The parent removed one note.
LayoutNoteDeleted ==
    /\ \E i \in 1..Len(layNotes) :
          LayoutRender(SubSeq(layNotes, 1, i - 1)
                           \o SubSeq(layNotes, i + 1, Len(layNotes)))
    /\ UNCHANGED <<layNextId, notLayoutVars>>

LayoutNext == LayoutNoteAdded \/ LayoutNoteToggled \/ LayoutNoteDeleted

---------------------------------------------------------------------------
(* getCommentSyntax on its own: file names of every kind.                  *)

\* What follows the last '.' of a name, in several spellings.
SyntaxExts ==
    {"html", "xml", "svg", "css", "py", "sh", "yaml", "yml", "dockerfile",
     "HTML", "Svg", "CSS", "Py", "YAML", "Dockerfile",
     "js", "ts", "unknownext", "htm", "scss", ""}

\* What precedes the last '.': plain, empty (a dot file), or itself dotted.
SyntaxStems == {"x", "", "a.b", "x.py", "x.css"}

\* Names with an extension, and names without any '.'.
SyntaxNames ==
    {stem \o "." \o ext : stem \in SyntaxStems, ext \in SyntaxExts}
        \cup SyntaxExts \cup {"Makefile", "README"}

NoSyntax == [start |-> "", end |-> ""]

SyntaxInit ==
    /\ synFilename \in SyntaxNames
    /\ synResult = NoSyntax
    /\ synDone = FALSE

SyntaxResolve ==
    /\ ~synDone
    /\ synResult' = getCommentSyntax(synFilename)
    /\ synDone' = TRUE
    /\ UNCHANGED <<synFilename, notSyntaxVars>>

SyntaxNext == SyntaxResolve

---------------------------------------------------------------------------
(* Scroll synchronisation: handleEditorScroll, handleNoteAreaScroll and    *)
(* the activeFileId effect.                                                *)
(*                                                                         *)
(* The handlers work on a record s of what they read and write:            *)
(* fromEditor, fromNotes (the two flags), editorTop, notesTop, notesEvent, *)
(* and wEditor / wNotes, the writes of a pane's offset made so far in the  *)
(* step. The note pane is a DOM element: assigning scrollTop clamps the    *)
(* value and, when the offset changes, queues one scroll event that is     *)
(* dispatched later (a queued event absorbs further changes). The editor   *)
(* is Monaco: setScrollTop clamps and, when the position changes, calls    *)
(* the onDidScrollChange listeners before it returns; on a disposed        *)
(* editor it does nothing.                                                 *)

\* The note pane's div is rendered unconditionally: noteAreaRef.current is
\* set from the first render on.
noteAreaRef == TRUE

Clamp(x, max) == IF x < 0 THEN 0 ELSE IF x > max THEN max ELSE x

\* noteAreaRef.current.scrollTop = top
SetNotesScrollTop(s, top, cause) ==
    LET t == Clamp(top, notesMax)
    IN  [s EXCEPT !.notesTop = t,
                  !.notesEvent = IF t # s.notesTop THEN @ \cup {cause} ELSE @,
                  !.wNotes = @ + 1]

\* As handleEditorScroll, without the test of isSyncingFromNotes.
handleEditorScroll_noGuard(s, top) ==
    LET s1 == [s EXCEPT !.fromEditor = TRUE]
    IN  IF noteAreaRef THEN SetNotesScrollTop(s1, top, "echo") ELSE s1

handleEditorScroll(s, top) ==
    IF s.fromNotes THEN [s EXCEPT !.fromNotes = FALSE]
    ELSE LET s1 == [s EXCEPT !.fromEditor = TRUE]
         IN  IF noteAreaRef THEN SetNotesScrollTop(s1, top, "echo") ELSE s1

\* editorRef.current.setScrollTop(top), with the listener registered in
\* handleEditorDidMount: onScroll(e.scrollTop).
EditorSetScrollTop(s, top) ==
    LET s1 == [s EXCEPT !.wEditor = @ + 1]
        t  == Clamp(top, editorMax)
    IN  IF editorRef = "live" /\ t # s.editorTop
        THEN handleEditorScroll([s1 EXCEPT !.editorTop = t], t)
        ELSE s1

\* As handleNoteAreaScroll, without the test of isSyncingFromEditor.
handleNoteAreaScroll_noGuard(s) ==
    LET s1 == [s EXCEPT !.fromNotes = TRUE]
    IN  IF editorRef # "null" THEN EditorSetScrollTop(s1, s1.notesTop) ELSE s1

handleNoteAreaScroll(s) ==
    IF s.fromEditor THEN [s EXCEPT !.fromEditor = FALSE]
    ELSE LET s1 == [s EXCEPT !.fromNotes = TRUE]
         IN  IF editorRef # "null" THEN EditorSetScrollTop(s1, s1.notesTop) ELSE s1

\* The state the handlers of a step start from.
Before ==
    [fromEditor |-> isSyncingFromEditor, fromNotes |-> isSyncingFromNotes,
     editorTop |-> editorTop, notesTop |-> notesTop, notesEvent |-> notesEvent,
     wEditor |-> 0, wNotes |-> 0]

\* The step ends in s; act, user and echo say which event it handled.
Commit(s, act, user, echo) ==
    /\ isSyncingFromEditor' = s.fromEditor
    /\ isSyncingFromNotes' = s.fromNotes
    /\ editorTop' = s.editorTop
    /\ notesTop' = s.notesTop
    /\ notesEvent' = s.notesEvent
    /\ obs' = [act |-> act, user |-> user, echo |-> echo,
               clear |-> ~isSyncingFromEditor /\ ~isSyncingFromNotes,
               pending |-> notesEvent # {},
               raced |-> "raced" \in notesEvent,
               wEditor |-> s.wEditor, wNotes |-> s.wNotes]
    /\ UNCHANGED <<editorMax, notesMax>>

NoObs ==
    [act |-> "none", user |-> FALSE, echo |-> FALSE, clear |-> TRUE,
     pending |-> FALSE, raced |-> FALSE, wEditor |-> 0, wNotes |-> 0]

ScrollInit ==
    /\ isSyncingFromEditor = FALSE
    /\ isSyncingFromNotes = FALSE
    /\ editorRef = "null"
    /\ editorTop = 0
    /\ notesTop = 0
    /\ editorMax \in 1..MaxScroll
    /\ notesMax \in 1..MaxScroll
    /\ notesEvent = {}
    /\ obs = NoObs
    /\ fileSwitched = FALSE

\* handleEditorDidMount: a file became active and its editor mounted, at
\* the top of the file.
EditorMount ==
    /\ editorRef # "live"
    /\ editorRef' = "live"
    /\ Commit([Before EXCEPT !.editorTop = 0], "mount", FALSE, FALSE)
    /\ UNCHANGED <<fileSwitched, notScrollVars>>

\* No file is active any more: CodeEditor unmounts and its editor is
\* disposed; nothing resets editorRef.current.
EditorUnmount ==
    /\ editorRef = "live"
    /\ editorRef' = "disposed"
    /\ Commit(Before, "unmount", FALSE, FALSE)
    /\ UNCHANGED <<fileSwitched, notScrollVars>>

\* A scroll event of the note pane that is still queued when the editor
\* scrolls is marked "raced".
Raced(ev) == IF ev # {} THEN ev \cup {"raced"} ELSE ev

\* The user scrolls the editor to o: onDidScrollChange -> onScroll(o).
UserScrollEditor ==
    /\ editorRef = "live"
    /\ \E o \in 0..editorMax :
          /\ o # editorTop
          /\ Commit(handleEditorScroll([Before EXCEPT !.editorTop = o,
                                                      !.notesEvent = Raced(@)],
                                       o),
                    "editorScroll", TRUE, FALSE)
    /\ UNCHANGED <<editorRef, fileSwitched, notScrollVars>>

\* The user scrolls the note pane to o: its scroll event is queued.
UserScrollNotes ==
    /\ \E o \in 0..notesMax :
          /\ o # notesTop
          /\ Commit([Before EXCEPT !.notesTop = o,
                                   !.notesEvent = @ \cup {"user"}],
                    "userNotes", TRUE, FALSE)
    /\ UNCHANGED <<editorRef, fileSwitched, notScrollVars>>

\* The note pane's queued scroll event is dispatched: onScroll.
DispatchNotesScroll ==
    /\ notesEvent # {}
    /\ Commit(handleNoteAreaScroll([Before EXCEPT !.notesEvent = {}]),
              "notesScroll", "user" \in notesEvent, "echo" \in notesEvent)
    /\ UNCHANGED <<editorRef, fileSwitched, notScrollVars>>

\* The effect on [activeFileId]: both panes are reset to the top.
FileSwitch ==
    /\ LET s1 == IF editorRef # "null" THEN EditorSetScrollTop(Before, 0)
                 ELSE Before
           s2 == IF noteAreaRef THEN SetNotesScrollTop(s1, 0, "reset") ELSE s1
       IN  Commit(s2, "fileSwitch", FALSE, FALSE)
    /\ fileSwitched' = TRUE
    /\ UNCHANGED <<editorRef, notScrollVars>>

ScrollNext ==
    \/ EditorMount
    \/ EditorUnmount
    \/ UserScrollEditor
    \/ UserScrollNotes
    \/ DispatchNotesScroll
    \/ FileSwitch

---------------------------------------------------------------------------
(* The App's note handlers: handleAddNote, handleToggleExpand,             *)
(* handleUpdateNote, handleDeleteNote, with handleFileSelect,              *)
(* handleCodeChange, handleToggleMode and handleExport around them.        *)
(*                                                                         *)
(* A handler is a closure of one render: it reads the notes, activeFileId  *)
(* and isReadOnly of that render (record c) and answers with the state     *)
(* updates it makes. The note cards and the Annotate button call the       *)
(* handlers of the latest render. The editor's 'add-note-action' is        *)
(* registered once, in handleEditorDidMount, and keeps calling the         *)
(* onAddNote of the render in which the editor was created.                *)

FileIds == {"file-1", "file-2"}

\* content of a file: not loaded yet, loaded and empty, loaded with text
FileContents == {"undefined", "", "code"}

NoSelection == [startLine |-> 0, endLine |-> 0]

Selections == {[startLine |-> 1, endLine |-> MaxAppLine]}

\* What a handler leaves to React: setNotes(notes) and setSelection(null).
NoUpdate(c) == [set |-> FALSE, notes |-> c.notes, clearSel |-> FALSE]

handleToggleExpand(c, id) ==
    [set |-> TRUE,
     notes |-> [i \in 1..Len(c.notes) |->
                   IF c.notes[i].id = id
                   THEN [c.notes[i] EXCEPT !.isExpanded = ~@]
                   ELSE c.notes[i]],
     clearSel |-> FALSE]

\* notes.find(...): the first match.
FindExisting(c, startLine) ==
    LET hits == {i \in 1..Len(c.notes) :
                    /\ c.notes[i].fileId = c.activeFileId
                    /\ c.notes[i].startLine = startLine}
    IN  IF hits = {} THEN 0 ELSE CHOOSE i \in hits : \A j \in hits : i <= j

\* As handleAddNote, without the test of activeFileId.
handleAddNote_noActiveFileCheck(c, startLine, endLine, t) ==
    IF c.isReadOnly THEN NoUpdate(c)
    ELSE LET existing == FindExisting(c, startLine)
         IN  IF existing # 0
             THEN handleToggleExpand(c, c.notes[existing].id)
             ELSE [set |-> TRUE,
                   notes |-> Append(c.notes,
                                    Note(t, c.activeFileId, startLine, endLine,
                                         "", TRUE)),
                   clearSel |-> TRUE]

\* As handleAddNote, without the search for an existing note.
handleAddNote_noExistingCheck(c, startLine, endLine, t) ==
    IF c.isReadOnly \/ c.activeFileId = "" THEN NoUpdate(c)
    ELSE [set |-> TRUE,
          notes |-> Append(c.notes,
                           Note(t, c.activeFileId, startLine, endLine, "", TRUE)),
          clearSel |-> TRUE]

handleAddNote(c, startLine, endLine, t) ==
    IF c.isReadOnly \/ c.activeFileId = "" THEN NoUpdate(c)
    ELSE LET existing == FindExisting(c, startLine)
         IN  IF existing # 0
             THEN handleToggleExpand(c, c.notes[existing].id)
             ELSE [set |-> TRUE,
                   notes |-> Append(c.notes,
                                    Note(t, c.activeFileId, startLine, endLine,
                                         "", TRUE)),
                   clearSel |-> TRUE]

handleUpdateNote(c, id, content) ==
    IF c.isReadOnly THEN NoUpdate(c)
    ELSE [set |-> TRUE,
          notes |-> [i \in 1..Len(c.notes) |->
                        IF c.notes[i].id = id
                        THEN [c.notes[i] EXCEPT !.content = content]
                        ELSE c.notes[i]],
          clearSel |-> FALSE]

\* As handleDeleteNote, removing the first note whenever the id matches one.
handleDeleteNote_first(c, id) ==
    IF c.isReadOnly THEN NoUpdate(c)
    ELSE [set |-> TRUE,
          notes |-> IF \E i \in 1..Len(c.notes) : c.notes[i].id = id
                    THEN Tail(c.notes) ELSE c.notes,
          clearSel |-> FALSE]

handleDeleteNote(c, id) ==
    IF c.isReadOnly THEN NoUpdate(c)
    ELSE [set |-> TRUE,
          notes |-> SelectSeq(c.notes, LAMBDA n : n.id # id),
          clearSel |-> FALSE]

\* The handlers of the current render.
Render == [notes |-> appNotes, activeFileId |-> activeFileId,
           isReadOnly |-> isReadOnly]

NoEditor == [live |-> FALSE, action |-> FALSE, notes |-> <<>>,
             activeFileId |-> ""]

\* Has anything a handler must leave alone on an early return changed?
Changed(n, f, sel, ro) ==
    <<n, f, sel, ro>> # <<appNotes, appFiles, selection, isReadOnly>>

NoAppObs ==
    [op |-> "other", rejected |-> FALSE, existed |-> FALSE, fileId |-> "",
     startLine |-> 0, changed |-> FALSE]

\* A step applies the update r of a note handler.
ApplyNotes(r, op, rejected, existed, fileId, startLine) ==
    /\ Len(r.notes) <= MaxAppNotes
    /\ appNotes' = IF r.set THEN r.notes ELSE appNotes
    /\ selection' = IF r.clearSel THEN NoSelection ELSE selection
    /\ appObs' = IF op \in {"add", "addAction"}
                 THEN [op |-> op, rejected |-> rejected, existed |-> existed,
                       fileId |-> fileId, startLine |-> startLine,
                       changed |-> Changed(appNotes', appFiles, selection',
                                           isReadOnly)]
                 ELSE NoAppObs

\* A step that is not a note handler's; of these, only an export is
\* recorded.
Observe(op, rejected) ==
    appObs' = IF op = "export"
              THEN [NoAppObs EXCEPT !.op = op, !.rejected = rejected,
                                    !.changed = Changed(appNotes', appFiles',
                                                        selection', isReadOnly')]
              ELSE NoAppObs

HasNoteAt(ns, fileId, startLine) ==
    \E i \in 1..Len(ns) : ns[i].fileId = fileId /\ ns[i].startLine = startLine

\* The notes the App starts from: the stored notes, here none.
InitialNotes == {<<>>}

AppInit ==
    /\ appNotes \in InitialNotes
    /\ appFiles \in {[f \in FileIds |-> IF f = "file-1" THEN "code" ELSE x] :
                        x \in {"undefined", ""}}
    /\ activeFileId = ""
    /\ selection = NoSelection
    /\ isReadOnly = FALSE
    /\ now = 1
    /\ editorProps = NoEditor
    /\ appObs = NoAppObs

\* CodeEditor is rendered while a file is active; a newly created editor
\* holds the handlers of the render that created it. It registers the
\* action only `if (!isReadOnly)`, so the onAddNote it holds has a false
\* isReadOnly; without the action the notes of that render are never read.
EditorAfter(newActive) ==
    IF newActive = "" THEN NoEditor
    ELSE IF editorProps.live THEN editorProps
    ELSE [live |-> TRUE, action |-> ~isReadOnly,
          notes |-> IF isReadOnly THEN <<>> ELSE appNotes,
          activeFileId |-> newActive]

\* The effect on [activeFileId]: setSelection(null).
SelectionAfter(newActive) ==
    IF newActive # activeFileId THEN NoSelection ELSE selection

handleToggleMode ==
    /\ isReadOnly' = ~isReadOnly
    /\ UNCHANGED <<appNotes, appFiles, activeFileId, selection, now,
                   editorProps, notAppVars>>
    /\ Observe("toggleMode", FALSE)

\* handleFileSelect: the file becomes active; content that is not loaded
\* yet is fetched, which may fail.
handleFileSelect ==
    /\ \E f \in FileIds, loaded \in BOOLEAN :
          /\ activeFileId' = f
          /\ appFiles' = IF appFiles[f] = "undefined" /\ loaded
                         THEN [appFiles EXCEPT ![f] = "code"]
                         ELSE appFiles
          /\ selection' = SelectionAfter(f)
          /\ editorProps' = EditorAfter(f)
    /\ UNCHANGED <<appNotes, isReadOnly, now, notAppVars>>
    /\ Observe("fileSelect", FALSE)

\* handleGitClone in demo mode: a fetched tree replaces the files and no
\* file is active.
handleGitClone ==
    /\ ~isReadOnly
    /\ appFiles' = [f \in FileIds |-> "undefined"]
    /\ activeFileId' = ""
    /\ selection' = SelectionAfter("")
    /\ editorProps' = EditorAfter("")
    /\ UNCHANGED <<appNotes, isReadOnly, now, notAppVars>>
    /\ Observe("gitClone", FALSE)

\* onDidChangeCursorSelection -> onSelectionChange.
SelectionChange ==
    /\ editorProps.live
    /\ \E sel \in Selections \cup {NoSelection} :
          /\ sel # selection
          /\ selection' = sel
    /\ UNCHANGED <<appNotes, appFiles, activeFileId, isReadOnly, now,
                   editorProps, notAppVars>>
    /\ Observe("select", FALSE)

\* Time passes.
Tick ==
    /\ now < MaxNow
    /\ now' = now + 1
    /\ UNCHANGED <<appNotes, appFiles, activeFileId, selection, isReadOnly,
                   editorProps, notAppVars>>
    /\ Observe("tick", FALSE)

\* An add-annotation request to the handler of the current render (the
\* Annotate button).
AddNoteRequest ==
    /\ \E startLine \in 1..MaxAppLine :
          LET r == handleAddNote(Render, startLine, startLine, now)
          IN  ApplyNotes(r, "add", ~r.set,
                            HasNoteAt(appNotes, activeFileId, startLine),
                            activeFileId, startLine)
    /\ UNCHANGED <<appFiles, activeFileId, isReadOnly, now, editorProps,
                   notAppVars>>

\* Ctrl/Cmd+K in the editor: 'add-note-action' runs the onAddNote it was
\* registered with.
AddNoteAction ==
    /\ editorProps.live /\ editorProps.action
    /\ \E startLine \in 1..MaxAppLine :
          LET c == [notes |-> editorProps.notes,
                    activeFileId |-> editorProps.activeFileId,
                    isReadOnly |-> FALSE]
              r == handleAddNote(c, startLine, startLine, now)
          IN  ApplyNotes(r, "addAction", ~r.set,
                            HasNoteAt(appNotes, c.activeFileId, startLine),
                            c.activeFileId, startLine)
    /\ UNCHANGED <<appFiles, activeFileId, isReadOnly, now, editorProps,
                   notAppVars>>

UpdateNote ==
    /\ \E i \in 1..Len(appNotes), content \in {"", "t"} :
          LET r == handleUpdateNote(Render, appNotes[i].id, content)
          IN  ApplyNotes(r, "update", ~r.set, FALSE, "", 0)
    /\ UNCHANGED <<appFiles, activeFileId, isReadOnly, now, editorProps,
                   notAppVars>>

DeleteNote ==
    /\ \E i \in 1..Len(appNotes) :
          LET r == handleDeleteNote(Render, appNotes[i].id)
          IN  ApplyNotes(r, "delete", ~r.set, FALSE, "", 0)
    /\ UNCHANGED <<appFiles, activeFileId, isReadOnly, now, editorProps,
                   notAppVars>>

ToggleExpand ==
    /\ \E i \in 1..Len(appNotes) :
          LET r == handleToggleExpand(Render, appNotes[i].id)
          IN  ApplyNotes(r, "toggle", FALSE, FALSE, "", 0)
    /\ UNCHANGED <<appFiles, activeFileId, isReadOnly, now, editorProps,
                   notAppVars>>

\* handleCodeChange: the edit of the active file reaches `files`.
handleCodeChange ==
    /\ editorProps.live
    /\ \E value \in {"", "code"} :
          appFiles' = IF isReadOnly \/ activeFileId = "" THEN appFiles
                      ELSE [appFiles EXCEPT ![activeFileId] = value]
    /\ UNCHANGED <<appNotes, activeFileId, selection, isReadOnly, now,
                   editorProps, notAppVars>>
    /\ Observe("codeChange", isReadOnly \/ activeFileId = "")

\* handleExport: rejected when no file is active or its content is
\* undefined or empty; otherwise a download, which changes no state.
handleExport ==
    /\ UNCHANGED <<appNotes, appFiles, activeFileId, selection, isReadOnly, now,
                   editorProps, notAppVars>>
    /\ Observe("export",
               activeFileId = "" \/ appFiles[activeFileId] \in {"undefined", ""})

\* The life of the notes: requests, edits, toggles, deletions, file
\* selections, mode changes, at any pace of the clock.
AppNext ==
    \/ Tick
    \/ handleToggleMode
    \/ handleFileSelect
    \/ handleGitClone
    \/ AddNoteRequest
    \/ AddNoteAction
    \/ UpdateNote
    \/ DeleteNote
    \/ ToggleExpand

\* The requests that may be rejected early, with the state they must leave
\* alone: notes, files, selection and mode.
FrameNext ==
    \/ handleToggleMode
    \/ handleFileSelect
    \/ handleGitClone
    \/ SelectionChange
    \/ AddNoteRequest
    \/ handleCodeChange
    \/ handleExport

---------------------------------------------------------------------------
(* The notes file: loadNotesFromConfig and saveNotesToConfig               *)
(* (fileHandleService.ts).                                                 *)
(*                                                                         *)
(* A note is written as a number here; a JSON value is an array of notes,  *)
(* null or an empty object. JSON.stringify(v, null, 2) builds the text;    *)
(* JSON.parse accepts exactly the texts JSON.stringify can build and       *)
(* throws on every other text.                                             *)

JsonArray(items) == [type |-> "array", items |-> items]

JsonNull == [type |-> "null", items |-> <<>>]

JsonObject == [type |-> "object", items |-> <<>>]

RECURSIVE StoredArrays(_)
\* The arrays of at most n notes.
StoredArrays(n) ==
    IF n = 0 THEN {<<>>}
    ELSE StoredArrays(n - 1)
           \cup {Append(a, x) : a \in {b \in StoredArrays(n - 1) : Len(b) = n - 1},
                                x \in 1..MaxStoredId}

JsonValues ==
    {JsonArray(a) : a \in StoredArrays(MaxStoredNotes)} \cup {JsonNull, JsonObject}

\* JSON.stringify(value, null, 2)
JSONstringify(v) ==
    IF v.type = "null" THEN "null"
    ELSE IF v.type = "object" THEN "{}"
    ELSE IF Len(v.items) = 0 THEN "[]"
    ELSE "[\n  "
           \o Join([i \in 1..Len(v.items) |-> ToString(v.items[i])], ",\n  ")
           \o "\n]"

\* JSON.parse(text): the value, or a SyntaxError.
JSONparse(text) ==
    IF \E v \in JsonValues : JSONstringify(v) = text
    THEN [ok |-> TRUE, value |-> CHOOSE v \in JsonValues : JSONstringify(v) = text]
    ELSE [ok |-> FALSE, value |-> JsonNull]

\* A file of a directory: absent, or present with a text that can or cannot
\* be read.
MissingFile == [exists |-> FALSE, readable |-> FALSE, text |-> ""]

StoredFile(text) == [exists |-> TRUE, readable |-> TRUE, text |-> text]

\* getFileHandle throws when the file is missing, readFileText when it
\* cannot be read, JSON.parse when the text is not JSON: the catch returns
\* [] for all three.
loadNotesFromConfig(file) ==
    IF ~file.exists \/ ~file.readable THEN JsonArray(<<>>)
    ELSE LET parsed == JSONparse(file.text)
         IN  IF parsed.ok THEN parsed.value ELSE JsonArray(<<>>)

\* The texts a notes file may hold: written by JSON.stringify, or not JSON.
StoredTexts ==
    {JSONstringify(v) : v \in JsonValues} \cup {"", "[\n  1,", "notes"}

StoredFiles ==
    {MissingFile}
      \cup {[exists |-> TRUE, readable |-> r, text |-> t] :
               r \in BOOLEAN, t \in StoredTexts}

LoadInit ==
    /\ ldFile \in StoredFiles
    /\ ldResult = JsonNull
    /\ ldDone = FALSE

\* handleOpenWorkspace reads the notes of the directory the user picked.
LoadNotes ==
    /\ ~ldDone
    /\ ldResult' = loadNotesFromConfig(ldFile)
    /\ ldDone' = TRUE
    /\ UNCHANGED <<ldFile, notLoadVars>>

LoadNext == LoadNotes

---------------------------------------------------------------------------
(* Persistence of the notes: the effect on [notes, isLocalMode,            *)
(* rootHandle] with its 1 s debounce, handleOpenWorkspace, handleGitClone, *)
(* and the writes of handleCodeChange.                                     *)
(*                                                                         *)
(* A timer is the closure its callback runs with: the rootHandle and the   *)
(* notes of the render that set it; `latest` marks the timer that          *)
(* saveTimeoutRef.current refers to. A write in progress has been issued   *)
(* by writeFileText and not closed yet; closing it replaces the file.      *)
(* svHist counts the changes of the current burst and the writes issued    *)
(* for it up to 2, which stands for two or more; its owner[n] is where note *)
(* n was created: a workspace, or "demo".                                   *)

Workspaces == {"ws1", "ws2"}

\* if (saveTimeoutRef.current) clearTimeout(saveTimeoutRef.current)
ClearTimeout(timers) == SelectSeq(timers, LAMBDA t : ~t.latest)

\* As NotesEffect, without the clearTimeout.
NotesEffect_noClearTimeout(local, root, ns, timers) ==
    IF local /\ root # "none"
    THEN Append([i \in 1..Len(timers) |-> [timers[i] EXCEPT !.latest = FALSE]],
                [root |-> root, notes |-> ns, latest |-> TRUE])
    ELSE timers

\* The effect on [notes, isLocalMode, rootHandle]: the timers it leaves.
NotesEffect(local, root, ns, timers) ==
    IF local /\ root # "none"
    THEN Append(ClearTimeout(timers),
                [root |-> root, notes |-> ns, latest |-> TRUE])
    ELSE timers

\* As OpenedNotes, the notes on screen kept.
OpenedNotes_keepsCurrent(current, file) == current

\* handleOpenWorkspace: setNotes(loadedNotes) replaces the notes on screen by
\* those of the directory's notes file.
OpenedNotes(current, file) == loadNotesFromConfig(file).items

\* The effect on [notes, isLocalMode] that keeps localStorage.
LsEffect(local, ns) == IF ~local THEN ns ELSE lsNotes

NoSaveObs ==
    [op |-> "other", n |-> 0, issued |-> 0, wrote |-> <<>>, last |-> <<>>,
     target |-> "none", root |-> "none"]

SaveInit ==
    /\ isLocalMode = FALSE
    /\ rootHandle = "none"
    /\ svNotes = <<>>
    /\ lsNotes = <<>>
    /\ svTimers = <<>>
    /\ svWrites = EmptyBag
    /\ svDisk = [w \in Workspaces |-> MissingFile]
    /\ svNextId = 1
    /\ svHist = [burst |-> 0, issued |-> 0, last |-> <<>>, root |-> "none",
                 edited |-> [w \in Workspaces |-> FALSE],
                 lastEdit |-> [w \in Workspaces |-> <<>>],
                 owner |-> <<>>]
    /\ svObs = NoSaveObs

\* handleOpenWorkspace: the picked directory's notes are loaded and become
\* the notes; the App is in local mode with that directory as root.
OpenWorkspace ==
    /\ \E ws \in Workspaces :
          LET loaded == OpenedNotes(svNotes, svDisk[ws])
          IN  /\ isLocalMode' = TRUE
              /\ rootHandle' = ws
              /\ svNotes' = loaded
              /\ svTimers' = NotesEffect(TRUE, ws, loaded, svTimers)
    /\ svHist' = [svHist EXCEPT !.burst = 0, !.issued = 0]
    /\ svObs' = NoSaveObs
    /\ UNCHANGED <<lsNotes, svWrites, svDisk, svNextId, notSaveVars>>

\* handleGitClone in local mode: back to demo mode, where the notes are
\* those of localStorage.
CloneRepository ==
    /\ isLocalMode
    /\ isLocalMode' = FALSE
    /\ rootHandle' = "none"
    /\ svNotes' = lsNotes
    /\ svTimers' = NotesEffect(FALSE, "none", lsNotes, svTimers)
    /\ svObs' = NoSaveObs
    /\ UNCHANGED <<lsNotes, svWrites, svDisk, svNextId, svHist, notSaveVars>>

\* A note is added or deleted; the effects on [notes, ...] run.
NoteChange ==
    /\ \E ns \in {Append(svNotes, svNextId),
                   IF svNotes = <<>> THEN svNotes ELSE Tail(svNotes)} :
          /\ ns # svNotes
          /\ Len(ns) <= MaxSaveNotes
          /\ Len(ns) > Len(svNotes) => svNextId <= MaxSaveId
          /\ svNotes' = ns
          /\ svNextId' = IF Len(ns) > Len(svNotes) THEN svNextId + 1 ELSE svNextId
          /\ svTimers' = NotesEffect(isLocalMode, rootHandle, ns, svTimers)
          /\ lsNotes' = LsEffect(isLocalMode, ns)
          /\ svHist' = IF isLocalMode
                       THEN [svHist EXCEPT
                               !.burst = IF @ >= 2 THEN 2 ELSE @ + 1,
                               !.issued = IF svHist.burst = 0 THEN 0 ELSE @,
                               !.last = ns,
                               !.root = rootHandle,
                               !.edited[rootHandle] = TRUE,
                               !.lastEdit[rootHandle] = ns,
                               !.owner = IF Len(ns) > Len(svNotes)
                                         THEN Append(@, rootHandle) ELSE @]
                       ELSE [svHist EXCEPT
                               !.owner = IF Len(ns) > Len(svNotes)
                                         THEN Append(@, "demo") ELSE @]
    /\ svObs' = NoSaveObs
    /\ UNCHANGED <<isLocalMode, rootHandle, svWrites, svDisk, notSaveVars>>

\* The oldest timer fires: saveNotesToConfig(rootHandle, notes) of its
\* closure issues a write of the notes file.
TimerFire ==
    /\ svTimers # <<>>
    /\ BagCardinality(svWrites) < MaxWrites
    /\ LET t == Head(svTimers)
       IN  /\ svTimers' = Tail(svTimers)
           /\ svWrites' = svWrites (+) SetToBag(
                                 {[kind |-> "notes", target |-> t.root,
                                   text |-> JSONstringify(JsonArray(t.notes))]})
           /\ svObs' = [op |-> "fire", n |-> svHist.burst,
                        issued |-> IF svHist.issued >= 2 THEN 2
                                   ELSE svHist.issued + 1, wrote |-> t.notes,
                        last |-> svHist.last, target |-> t.root,
                        root |-> svHist.root]
    /\ svHist' = [svHist EXCEPT !.burst = 0,
                                !.issued = IF @ >= 2 THEN 2 ELSE @ + 1]
    /\ UNCHANGED <<isLocalMode, rootHandle, svNotes, lsNotes, svDisk, svNextId,
                   notSaveVars>>

\* A write in progress is closed; a notes file then holds the written text.
WriteDone ==
    /\ \E w \in BagToSet(svWrites) :
          /\ svWrites' = svWrites (-) SetToBag({w})
          /\ svDisk' = IF w.kind = "notes"
                       THEN [svDisk EXCEPT ![w.target] = StoredFile(w.text)]
                       ELSE svDisk
    /\ svObs' = NoSaveObs
    /\ UNCHANGED <<isLocalMode, rootHandle, svNotes, lsNotes, svTimers, svNextId,
                   svHist, notSaveVars>>

\* handleCodeChange in local mode: writeFileText(activeFile.handle, value).
CodeWrite ==
    /\ isLocalMode
    /\ BagCardinality(svWrites) < MaxWrites
    /\ svWrites' = svWrites (+) SetToBag(
                          {[kind |-> "code", target |-> "file-1", text |-> "code"]})
    /\ svObs' = NoSaveObs
    /\ UNCHANGED <<isLocalMode, rootHandle, svNotes, lsNotes, svTimers, svDisk,
                   svNextId, svHist, notSaveVars>>

SaveNext ==
    \/ OpenWorkspace
    \/ CloneRepository
    \/ NoteChange
    \/ TimerFire
    \/ WriteDone
    \/ CodeWrite

---------------------------------------------------------------------------
(* The I/O of the user's actions and what the user is told of it.          *)
(*                                                                         *)
(* Each action is one handler run to completion with the outcome of its    *)
(* I/O, drawn from {succeeds, fails}. A toast is what `toast` of sonner    *)
(* leaves on screen once the handler has settled: toast.promise leaves its *)
(* success or its error toast, toast.loading followed by toast.dismiss     *)
(* leaves none. console.error is not shown to the user.                    *)

NoToast == [type |-> "none", text |-> ""]

Toast(type, text) == [type |-> type, text |-> text]

\* The Toaster after a toast is raised: the oldest leaves when it is full.
Show(toasts, t) ==
    IF t = NoToast THEN toasts
    ELSE LET all == Append(toasts, t)
         IN  IF Len(all) > MaxToasts THEN Tail(all) ELSE all

NoIoObs == [op |-> "none", failed |-> FALSE, toast |-> NoToast, console |-> ""]

\* What a settled handler did: `failed` is whether an I/O call of it threw.
Settled(op, failed, t, console) ==
    [op |-> op, failed |-> failed, toast |-> t, console |-> console]

IoInit ==
    /\ ioToasts = <<>>
    /\ ioObs = NoIoObs

\* handleOpenWorkspace: readDirectoryRecursive under toast.promise.
OpenFolder ==
    /\ \E ok \in BOOLEAN :
          LET t == IF ok THEN Toast("success", "Opened workspace")
                   ELSE Toast("error", "Failed to open workspace")
          IN  /\ ioToasts' = Show(ioToasts, t)
              /\ ioObs' = Settled("open", ~ok, t, "")
    /\ UNCHANGED notIoVars

\* handleFileSelect, local mode: readFileText of the selected file.
ReadOnSelect ==
    /\ \E ok \in BOOLEAN :
          LET t == IF ok THEN NoToast
                   ELSE Toast("error", "Failed to read file from disk")
          IN  /\ ioToasts' = Show(ioToasts, t)
              /\ ioObs' = Settled("select-read", ~ok, t, "")
    /\ UNCHANGED notIoVars

\* handleFileSelect, GitHub mode: fetchFileContent of the selected file.
FetchOnSelect ==
    /\ \E ok \in BOOLEAN :
          LET t == IF ok THEN NoToast ELSE Toast("error", "Failed to load file")
          IN  /\ ioToasts' = Show(ioToasts, t)
              /\ ioObs' = Settled("select-fetch", ~ok, t, "")
    /\ UNCHANGED notIoVars

\* handleCodeChange, local mode: writeFileText of the edited file.
WriteOnChange ==
    /\ \E ok \in BOOLEAN :
          /\ ioToasts' = Show(ioToasts, NoToast)
          /\ ioObs' = Settled("write", ~ok, NoToast,
                              IF ok THEN "" ELSE "Failed to write file")
    /\ UNCHANGED notIoVars

\* The debounced save: saveNotesToConfig and its catch.
SaveNotesRun ==
    /\ \E ok \in BOOLEAN :
          LET t == IF ok THEN NoToast
                   ELSE Toast("error", "Failed to save notes to disk")
          IN  /\ ioToasts' = Show(ioToasts, t)
              /\ ioObs' = Settled("save-notes", ~ok, t,
                                  IF ok THEN "" ELSE "Failed to auto-save notes:")
    /\ UNCHANGED notIoVars

\* handleGitClone: fetchRepoContents under toast.promise.
FetchOnClone ==
    /\ \E ok \in BOOLEAN :
          LET t == IF ok THEN Toast("success", "Successfully cloned")
                   ELSE Toast("error", "Failed:")
          IN  /\ ioToasts' = Show(ioToasts, t)
              /\ ioObs' = Settled("clone", ~ok, t, "")
    /\ UNCHANGED notIoVars

\* handleExportSource over a file whose content is not loaded: processNode
\* reads (local mode) or fetches (GitHub mode) it, a failure leaves its
\* content ''; zip.generateAsync follows, all under toast.promise.
ReadOnExport ==
    /\ \E local \in BOOLEAN, readOk \in BOOLEAN, zipOk \in BOOLEAN :
          LET t == IF zipOk THEN Toast("success", "Export successful!")
                   ELSE Toast("error", "Failed to export")
          IN  /\ ioToasts' = Show(ioToasts, t)
              /\ ioObs' = Settled(IF local THEN "export-read" ELSE "export-fetch",
                                  ~readOk \/ ~zipOk, t,
                                  IF readOk THEN ""
                                  ELSE IF local THEN "Failed to read local file"
                                  ELSE "Failed to fetch remote file")
    /\ UNCHANGED notIoVars

\* The oldest toast times out.
ToastExpires ==
    /\ ioToasts # <<>>
    /\ ioToasts' = Tail(ioToasts)
    /\ ioObs' = NoIoObs
    /\ UNCHANGED notIoVars

IoNext ==
    \/ OpenFolder
    \/ ReadOnSelect
    \/ FetchOnSelect
    \/ WriteOnChange
    \/ SaveNotesRun
    \/ FetchOnClone
    \/ ReadOnExport
    \/ ToastExpires

---------------------------------------------------------------------------
(* Cloning a repository: handleGitClone with the identifier it is given,   *)
(* the effect on [isLocalMode] and the effects that keep localStorage.     *)
(*                                                                         *)
(* A file tree is written as the name of its root, the notes as the place  *)
(* they come from and the number of edits since.                           *)

RECURSIVE trim(_)
\* String.prototype.trim, for blanks.
trim(s) ==
    IF StartsWith(s, " ") THEN trim(SubSeq(s, 2, Len(s)))
    ELSE IF EndsWith(s, " ") THEN trim(SubSeq(s, 1, Len(s) - 1))
    ELSE s

\* s.replace(/suffix$/, '')
RemoveSuffix(s, suffix) ==
    IF EndsWith(s, suffix) THEN SubSeq(s, 1, Len(s) - Len(suffix)) ELSE s

\* repoString.trim().replace(/\/$/, '').replace(/\.git$/, '')
cleanStr(repoString) == RemoveSuffix(RemoveSuffix(trim(repoString), "/"), ".git")

NoMatch == [matched |-> FALSE, owner |-> "", repo |-> ""]

\* cleanStr.match(/(?:github\.com\/|^)([^\/]+)\/([^\/]+)$/): the last two
\* '/'-separated pieces, both non-empty, which are the whole string or
\* follow 'github.com/'.
gitUrlMatch(clean) ==
    LET parts == Split(clean, "/")
        n     == Len(parts)
    IN  IF /\ n >= 2
           /\ parts[n - 1] # "" /\ parts[n] # ""
           /\ \/ n = 2
              \/ EndsWith(Join(SubSeq(parts, 1, n - 2), "/"), "github.com")
        THEN [matched |-> TRUE, owner |-> parts[n - 1], repo |-> parts[n]]
        ELSE NoMatch

\* The identifiers a user may type.
RepoStrings ==
    {"o/r", " o/r/ ", "https://github.com/o/r.git", "github.com/o/r",
     "", "o", "o/", "a/b/c", "https://gitlab.com/o/r"}

StoredNotes(from) == [from |-> from, rev |-> 0]

\* The effect on [isLocalMode]: in demo mode files and notes are those of
\* localStorage.
ModeEffect(a) ==
    IF ~a.isLocalMode
    THEN [a EXCEPT !.files = a.lsFiles, !.notes = a.lsNotes]
    ELSE a

\* The effects on [files, isLocalMode] and [notes, isLocalMode]: in demo
\* mode localStorage follows files and notes.
LsEffects(a) ==
    IF ~a.isLocalMode
    THEN [a EXCEPT !.lsFiles = a.files, !.lsNotes = a.notes]
    ELSE a

\* handleGitClone(repoString), the fetch succeeding or not: the state it
\* leaves and whether fetchRepoContents was called.
handleGitCloneRun(a, repoString, fetchOk) ==
    IF a.isReadOnly THEN [app |-> a, fetched |-> FALSE]
    ELSE LET demo == IF a.isLocalMode
                     THEN LsEffects(ModeEffect(
                              [a EXCEPT !.isLocalMode = FALSE,
                                        !.workspaceName = "null",
                                        !.rootHandle = "null"]))
                     ELSE a
             match == gitUrlMatch(cleanStr(repoString))
         IN  IF ~match.matched THEN [app |-> demo, fetched |-> FALSE]
             ELSE IF ~fetchOk THEN [app |-> demo, fetched |-> TRUE]
             ELSE [app |-> LsEffects(
                              [demo EXCEPT
                                 !.files = "repo-" \o match.owner \o "-"
                                              \o match.repo,
                                 !.activeFileId = ""]),
                   fetched |-> TRUE]

NoCloneObs == [op |-> "other", repoString |-> "", fetched |-> FALSE,
               before |-> <<>>]

\* The workspace state: mode, root handle, workspace name, files, notes and
\* active file.
WorkspaceState(a) ==
    <<a.isLocalMode, a.rootHandle, a.workspaceName, a.files, a.notes,
      a.activeFileId>>

CloneInit ==
    /\ clApp = [isLocalMode |-> FALSE, rootHandle |-> "null",
                workspaceName |-> "null", files |-> "sample",
                notes |-> StoredNotes("localStorage"), activeFileId |-> "",
                isReadOnly |-> FALSE, lsFiles |-> "sample",
                lsNotes |-> StoredNotes("localStorage")]
    /\ clFetches = 0
    /\ clObs = NoCloneObs

\* handleOpenWorkspace: the picked directory is read and becomes the
\* workspace.
CloneOpenWorkspace ==
    /\ \E ws \in Workspaces :
          clApp' = [clApp EXCEPT !.isLocalMode = TRUE, !.rootHandle = ws,
                                 !.workspaceName = ws, !.files = ws,
                                 !.notes = StoredNotes(ws),
                                 !.activeFileId = ""]
    /\ clObs' = NoCloneObs
    /\ UNCHANGED <<clFetches, notCloneVars>>

\* handleFileSelect: a file of the tree becomes active.
CloneFileSelect ==
    /\ clApp.activeFileId = ""
    /\ clApp' = [clApp EXCEPT !.activeFileId = "file-1"]
    /\ clObs' = NoCloneObs
    /\ UNCHANGED <<clFetches, notCloneVars>>

\* A note handler changes the notes.
CloneNotesEdited ==
    /\ ~clApp.isReadOnly
    /\ clApp.notes.rev < MaxRevisions
    /\ clApp' = LsEffects([clApp EXCEPT !.notes.rev = @ + 1])
    /\ clObs' = NoCloneObs
    /\ UNCHANGED <<clFetches, notCloneVars>>

CloneToggleMode ==
    /\ clApp' = [clApp EXCEPT !.isReadOnly = ~@]
    /\ clObs' = NoCloneObs
    /\ UNCHANGED <<clFetches, notCloneVars>>

\* handleGitClone with what the user typed.
GitClone ==
    /\ clFetches < MaxFetches
    /\ \E repoString \in RepoStrings, fetchOk \in BOOLEAN :
          LET r == handleGitCloneRun(clApp, repoString, fetchOk)
          IN  /\ clApp' = r.app
              /\ clFetches' = IF r.fetched THEN clFetches + 1 ELSE clFetches
              /\ clObs' = [op |-> "clone", repoString |-> repoString,
                           fetched |-> r.fetched,
                           before |-> WorkspaceState(clApp)]
    /\ UNCHANGED notCloneVars

CloneNext ==
    \/ CloneOpenWorkspace
    \/ CloneFileSelect
    \/ CloneNotesEdited
    \/ CloneToggleMode
    \/ GitClone

---------------------------------------------------------------------------
(* Lazy loading of file content: handleFileSelect, with handleToggleFolder *)
(* and handleCodeChange while loads are in flight.                         *)
(*                                                                         *)
(* The tree is one folder holding the files of FileIds. A load in flight   *)
(* is a handleFileSelect call suspended at its await: it holds the `files` *)
(* of the render it was called in.                                         *)

LazyContents == {"undefined", "loaded", "edited"}

\* updateContent / updateNode: the content of one file node is replaced.
WithContent(tree, f, content) == [tree EXCEPT !.content[f] = content]

\* toggleNode: the folder's isOpen is negated.
WithToggle(tree) == [tree EXCEPT !.isOpen = ~@]

\* The setFiles of a load whose content has arrived: in local mode
\* setFiles(prev => updateContent(prev)), in GitHub mode
\* setFiles(updateNode(files)) with the files the call started with.
LoadResolved(load, current) ==
    IF load.local
    THEN WithContent(current, load.file, "loaded")
    ELSE WithContent(load.files, load.file, "loaded")

LazyInit ==
    /\ lzLocal \in BOOLEAN
    /\ lzFiles = [content |-> [f \in FileIds |-> "undefined"], isOpen |-> TRUE]
    /\ lzActive = ""
    /\ lzLoads = {}
    /\ lzExpect = lzFiles

\* handleFileSelect: the file becomes active; when its content is not
\* loaded, the read or the fetch starts.
LazyFileSelect ==
    /\ \E f \in FileIds :
          /\ lzActive' = f
          /\ lzLoads' = IF lzFiles.content[f] = "undefined"
                        THEN lzLoads \cup {[file |-> f, local |-> lzLocal,
                                            files |-> lzFiles]}
                        ELSE lzLoads
          /\ Cardinality(lzLoads') <= MaxLoads
    /\ UNCHANGED <<lzLocal, lzFiles, lzExpect, notLazyVars>>

\* The await of one call settles: with the content, or with an error that
\* leaves the files alone.
LazyLoadSettles ==
    /\ \E load \in lzLoads, ok \in BOOLEAN :
          /\ lzLoads' = lzLoads \ {load}
          /\ lzFiles' = IF ok THEN LoadResolved(load, lzFiles) ELSE lzFiles
          /\ lzExpect' = IF ok THEN WithContent(lzExpect, load.file, "loaded")
                         ELSE lzExpect
    /\ UNCHANGED <<lzLocal, lzActive, notLazyVars>>

\* handleToggleFolder.
LazyToggleFolder ==
    /\ lzFiles' = WithToggle(lzFiles)
    /\ lzExpect' = WithToggle(lzExpect)
    /\ UNCHANGED <<lzLocal, lzActive, lzLoads, notLazyVars>>

\* handleCodeChange: an edit of the active file.
LazyCodeChange ==
    /\ lzActive # ""
    /\ lzFiles.content[lzActive] # "edited"
    /\ lzFiles' = WithContent(lzFiles, lzActive, "edited")
    /\ lzExpect' = WithContent(lzExpect, lzActive, "edited")
    /\ UNCHANGED <<lzLocal, lzActive, lzLoads, notLazyVars>>

LazyNext ==
    \/ LazyFileSelect
    \/ LazyLoadSettles
    \/ LazyToggleFolder
    \/ LazyCodeChange

---------------------------------------------------------------------------
(* Vocabulary of the export properties.                                    *)

expLines == Split(expContent, "\n")

expOut == Split(expResult, "\n")

expSyn == getCommentSyntax(expFilename)

\* A line that reads as a line of an injected block of a file named filename:
\* a header, a '[NOTE]' content line or a footer.
IsMarkerLine(line, filename) ==
    LET syn == getCommentSyntax(filename)
    IN  \/ /\ StartsWith(line, syn.start \o " ------------------ NOTE (L")
           /\ EndsWith(line, ") ------------------ " \o syn.end)
        \/ /\ StartsWith(line, syn.start \o " [NOTE] ")
           /\ (syn.end # "" => EndsWith(line, " " \o syn.end))
        \/ line = syn.start
                    \o " ----------------------------------------------------------- "
                    \o syn.end

\* The text without its marker lines.
StripMarkers(text, filename) ==
    Join(SelectSeq(Split(text, "\n"), LAMBDA l : ~IsMarkerLine(l, filename)), "\n")

NoMarkerInSource == \A i \in 1..Len(expLines) : ~IsMarkerLine(expLines[i], expFilename)

InRange(note) == note.startLine >= 1 /\ note.startLine <= Len(expLines)

\* The block the specification's wording describes for a note:
\* '{start} ------------------ NOTE (L{startLine}) ------------------ {end}',
\* a '{start} [NOTE] {contentLine}' line (and ' {end}' when end is non-empty)
\* per content line, and the footer.
SpecBlock(note) ==
    LET cl == Split(note.content, "\n")
    IN  <<expSyn.start \o " ------------------ NOTE (L" \o ToString(note.startLine)
            \o ") ------------------ " \o expSyn.end>>
        \o [k \in 1..Len(cl) |->
               IF expSyn.end = "" THEN expSyn.start \o " [NOTE] " \o cl[k]
               ELSE expSyn.start \o " [NOTE] " \o cl[k] \o " " \o expSyn.end]
        \o <<expSyn.start
             \o " ----------------------------------------------------------- "
             \o expSyn.end>>

RECURSIVE BlockLinesIn(_, _, _, _)
\* Lines of the blocks of the notes at positions from..Len(notes) whose
\* startLine is in lo..hi.
BlockLinesIn(notes, from, lo, hi) ==
    IF from > Len(notes) THEN 0
    ELSE (IF notes[from].startLine >= lo /\ notes[from].startLine <= hi
          THEN Len(SpecBlock(notes[from])) ELSE 0)
         + BlockLinesIn(notes, from + 1, lo, hi)

\* Where original line L (1-based) stands in the output when every note
\* anchored at 1..L has its block above its anchor.
PosOfOriginal(L) == L + BlockLinesIn(expNotes, 1, 1, L)

\* The input notes in every order.
Reorderings(notes) ==
    {[i \in 1..Len(notes) |-> notes[p[i]]] : p \in Permutations(1..Len(notes))}

\* Where the note with this id stands in notes.
IndexOf(notes, id) == CHOOSE k \in 1..Len(notes) : notes[k].id = id

\* q keeps the relative order that notes gives to notes sharing a startLine.
KeepsSharedAnchorOrder(notes, q) ==
    \A i, j \in 1..Len(q) :
        (i < j /\ q[i].startLine = q[j].startLine) =>
            IndexOf(notes, q[i].id) < IndexOf(notes, q[j].id)

RECURSIVE Interleaves(_, _, _)
\* out is orig with lines of `inserted` put in between: every line of orig
\* once, in order, and nothing else but inserted lines.
Interleaves(out, orig, inserted) ==
    IF Len(out) = 0 THEN Len(orig) = 0
    ELSE \/ /\ Len(orig) > 0
            /\ out[1] = orig[1]
            /\ Interleaves(Tail(out), Tail(orig), inserted)
         \/ /\ out[1] \in inserted
            /\ Interleaves(Tail(out), orig, inserted)

BlockLines == UNION {{SpecBlock(expNotes[i])[k] : k \in 1..Len(SpecBlock(expNotes[i]))}
                        : i \in 1..Len(expNotes)}

RECURSIVE SharedBlocks(_, _, _)
\* The blocks of the notes at positions from..Len(notes) anchored at L, in the
\* order of notes.
SharedBlocks(notes, from, L) ==
    IF from > Len(notes) THEN <<>>
    ELSE (IF notes[from].startLine = L THEN SpecBlock(notes[from]) ELSE <<>>)
         \o SharedBlocks(notes, from + 1, L)

\* seq[from..from+Len(part)-1] = part.
HasAt(seq, from, part) ==
    /\ from >= 1
    /\ from + Len(part) - 1 <= Len(seq)
    /\ SubSeq(seq, from, from + Len(part) - 1) = part

---------------------------------------------------------------------------
(* Properties of the source export.                                        *)

\* C1 as stated: for every source text, annotation list and file name,
\* removing the marker lines from the injected text gives back the source.
InjectionRoundTrip ==
    expDone => StripMarkers(expResult, expFilename) = expContent

\* C1 amended: the round trip holds for every source text none of whose own
\* lines reads as a marker line of the file's comment syntax.
InjectionRoundTripMarkerFree ==
    (expDone /\ NoMarkerInSource) =>
        StripMarkers(expResult, expFilename) = expContent

\* Two blocks were injected into a three-line, marker-free source.
InjectionRoundTripWitness ==
    /\ expDone
    /\ NoMarkerInSource
    /\ Len(expLines) = 3
    /\ Len(expNotes) = 2
    /\ \A i \in 1..2 : InRange(expNotes[i])
    /\ Len(expOut) > Len(expLines) + 6

\* C2: with no annotations the injection returns the content unchanged.
InjectionIdentity ==
    (expDone /\ expNotes = <<>>) => expResult = expContent

\* An export of a three-line text without notes.
InjectionIdentityWitness ==
    expDone /\ expNotes = <<>> /\ expContent = "a\nb\nc"

\* C3: the output is the original lines, each once and in order, with nothing
\* but lines of the notes' comment blocks in between.
OriginalLinesKept ==
    expDone => Interleaves(expOut, expLines, BlockLines)

\* An export that put blocks into a text of several lines.
OriginalLinesKeptWitness ==
    /\ expDone
    /\ Len(expLines) >= 2
    /\ Len(expNotes) = 2
    /\ expNotes[1].startLine = 2 /\ expNotes[2].startLine = 1
    /\ expContent = "a\nb\nc"
    /\ Len(expOut) > Len(expLines)

\* C4 as stated: the block of a note anchored past the last line stands in the
\* output, after the last original line.
AnchorBeyondEndAppended ==
    expDone =>
        \A i \in 1..Len(expNotes) :
            expNotes[i].startLine > Len(expLines) =>
                \E k \in (Len(expLines) + 1)..Len(expOut) :
                    HasAt(expOut, k, SpecBlock(expNotes[i]))

\* C5 as stated: the same annotations in any input order give the same text.
AnyInputOrderSameOutput ==
    expDone =>
        \A q \in Reorderings(expNotes) :
            injectNotesIntoCode(expContent, q, expFilename) = expResult

\* C5 amended: the blocks of annotations sharing a startLine stand above that
\* line in the input order of the annotations, and every input order that
\* keeps the relative order of annotations sharing a startLine gives the same
\* text.
SharedAnchorInputOrder ==
    expDone =>
        /\ \A q \in Reorderings(expNotes) :
               KeepsSharedAnchorOrder(expNotes, q) =>
                   injectNotesIntoCode(expContent, q, expFilename) = expResult
        /\ \A L \in 1..Len(expLines) :
               HasAt(expOut,
                     PosOfOriginal(L) - BlockLinesIn(expNotes, 1, L, L),
                     SharedBlocks(expNotes, 1, L))

\* Two annotations with different contents share an anchor inside the text.
SharedAnchorWitness ==
    /\ expDone
    /\ Len(expNotes) = 2
    /\ expNotes[1].startLine = expNotes[2].startLine
    /\ InRange(expNotes[1])
    /\ expNotes[1].content # expNotes[2].content

\* The specification's end-to-end scenario.
ScenarioHolds ==
    (/\ expContent = "a\nb\nc"
     /\ expFilename = "m.js"
     /\ Len(expNotes) = 1
     /\ expNotes[1].startLine = 2
     /\ expNotes[1].content = "hi") =>
        expOut = << "a",
                    "// ------------------ NOTE (L2) ------------------ ",
                    "// [NOTE] hi",
                    "// ----------------------------------------------------------- ",
                    "b", "c" >>

\* C6 as stated: the block of every in-range annotation stands contiguously
\* and immediately before its original line.
BlockImmediatelyBeforeAnchor ==
    expDone =>
        /\ ScenarioHolds
        /\ \A i \in 1..Len(expNotes) :
               InRange(expNotes[i]) =>
                   LET L == expNotes[i].startLine
                       B == SpecBlock(expNotes[i])
                   IN  /\ HasAt(expOut, PosOfOriginal(L), <<expLines[L]>>)
                       /\ HasAt(expOut, PosOfOriginal(L) - Len(B), B)

\* C6 amended: the block of every in-range annotation stands contiguously
\* before its original line, with only the blocks of the later-listed
\* annotations of the same startLine between the two; the output holds no
\* other injected line.
BlockBeforeAnchor ==
    expDone =>
        /\ ScenarioHolds
        /\ expNotes # <<>> =>
               Len(expOut) = Len(expLines)
                                + BlockLinesIn(expNotes, 1, 1, Len(expLines))
        /\ \A i \in 1..Len(expNotes) :
               InRange(expNotes[i]) =>
                   LET L == expNotes[i].startLine
                       B == SpecBlock(expNotes[i])
                   IN  /\ HasAt(expOut, PosOfOriginal(L), <<expLines[L]>>)
                       /\ HasAt(expOut,
                                PosOfOriginal(L)
                                    - BlockLinesIn(expNotes, i, L, L), B)

\* The end-to-end scenario has been exported.
BlockBeforeAnchorWitness ==
    /\ expDone
    /\ expContent = "a\nb\nc"
    /\ expFilename = "m.js"
    /\ Len(expNotes) = 1
    /\ expNotes[1].startLine = 2
    /\ expNotes[1].content = "hi"
    /\ Len(expOut) = 6

---------------------------------------------------------------------------
(* Properties of the note layout.                                          *)

\* The top the layout gives the card of the note with this id.
TopOf(positions, id) ==
    LET k == CHOOSE k \in 1..Len(positions) : positions[k].note.id = id
    IN  positions[k].top

\* The notes with everything but startLine and isExpanded replaced.
OtherContents(notes) ==
    [i \in 1..Len(notes) |->
        [notes[i] EXCEPT !.content = "other", !.fileId = "g",
                         !.endLine = notes[i].startLine + 1, !.createdAt = 0]]

\* C7: every card starts at least GAP = 20 below the estimated bottom (top
\* + 200 expanded, + 60 collapsed) of the card before it in output order.
LayoutNonOverlap ==
    \A i \in 1..(Len(layPositions) - 1) :
        layPositions[i + 1].top >=
            layPositions[i].top
                + (IF layPositions[i].note.isExpanded THEN 200 ELSE 60) + 20

\* Three cards, two of them on one line, one collapsed.
LayoutNonOverlapWitness ==
    /\ Len(layPositions) = 3
    /\ layPositions[1].note.startLine = layPositions[2].note.startLine
    /\ ~layPositions[1].note.isExpanded
    /\ layPositions[3].top > layPositions[2].top

\* C8 as stated: no annotation gives an empty layout, and a single
\* annotation stands at its ideal position (startLine - 1) * lineHeight + 16.
SingleCardAtIdeal ==
    /\ Len(layNotes) = 0 => layPositions = <<>>
    /\ Len(layNotes) = 1 =>
           /\ Len(layPositions) = 1
           /\ layPositions[1].top =
                  (layNotes[1].startLine - 1) * layLineHeight + 16

\* C9 as stated: the tops do not depend on the input order of the notes.
LayoutOrderIndependent ==
    \A q \in Reorderings(layNotes) :
        \A i \in 1..Len(layNotes) :
            TopOf(positionedNotes(q, layLineHeight), layNotes[i].id)
                = TopOf(layPositions, layNotes[i].id)

\* C9 amended: after any history of renders, the tops are those of a fresh
\* layout of the current notes in any input order that keeps the relative
\* order of notes sharing a startLine, and they do not depend on any field
\* but startLine and isExpanded.
LayoutDeterminism ==
    /\ \A q \in Reorderings(layNotes) :
           KeepsSharedAnchorOrder(layNotes, q) =>
               \A i \in 1..Len(layNotes) :
                   TopOf(positionedNotes(q, layLineHeight), layNotes[i].id)
                       = TopOf(layPositions, layNotes[i].id)
    /\ \A i \in 1..Len(layNotes) :
           TopOf(positionedNotes(OtherContents(layNotes), layLineHeight),
                 layNotes[i].id)
               = TopOf(layPositions, layNotes[i].id)

\* Three notes created out of line order after an earlier one was deleted,
\* one since collapsed.
LayoutDeterminismWitness ==
    /\ Len(layNotes) = 2
    /\ layNextId = 4
    /\ layNotes[1].startLine > layNotes[2].startLine
    /\ ~layNotes[2].isExpanded

\* Where the note with this id stands in a list of notes.
InputIndex(notes, id) == CHOOSE k \in 1..Len(notes) : notes[k].id = id

\* The notes of the first k cards, in input order.
NotesOfFirst(k) ==
    SelectSeq(layNotes,
              LAMBDA n : \E i \in 1..k : layPositions[i].note.id = n.id)

\* C23: the cards are the notes in ascending startLine order, equal
\* startLines in input order; every card after the first stands at the
\* larger of its ideal top and the previous card's top plus its estimated
\* height (200 expanded, 60 collapsed) plus 20; and the first k cards stand
\* where a layout of their notes alone puts them.
LayoutGreedy ==
    /\ Len(layPositions) = Len(layNotes)
    /\ {layPositions[k].note : k \in 1..Len(layPositions)}
           = {layNotes[k] : k \in 1..Len(layNotes)}
    /\ \A i, j \in 1..Len(layPositions) :
           i < j =>
               \/ layPositions[i].note.startLine < layPositions[j].note.startLine
               \/ /\ layPositions[i].note.startLine = layPositions[j].note.startLine
                  /\ InputIndex(layNotes, layPositions[i].note.id)
                         < InputIndex(layNotes, layPositions[j].note.id)
    /\ \A i \in 2..Len(layPositions) :
           LET ideal == (layPositions[i].note.startLine - 1) * layLineHeight + 16
               below == layPositions[i - 1].top
                           + (IF layPositions[i - 1].note.isExpanded
                              THEN 200 ELSE 60) + 20
           IN  layPositions[i].top = IF ideal > below THEN ideal ELSE below
    /\ \A k \in 1..Len(layPositions) :
           positionedNotes(NotesOfFirst(k), layLineHeight)
               = SubSeq(layPositions, 1, k)

\* Three cards out of input order: two share a line, the second stacked
\* under a collapsed first, the third on its own line at its ideal top.
LayoutGreedyWitness ==
    /\ Len(layPositions) = 3
    /\ layPositions[1].note.startLine = layPositions[2].note.startLine
    /\ ~layPositions[1].note.isExpanded
    /\ layPositions[2].top = layPositions[1].top + 60 + 20
    /\ layPositions[3].top
           = (layPositions[3].note.startLine - 1) * layLineHeight + 16
    /\ layNotes[1].startLine > layNotes[2].startLine

---------------------------------------------------------------------------
(* Properties of the scroll synchronisation.                               *)

\* C10 as stated: with both flags clear, a user-driven scroll event of one
\* pane makes exactly one write of the other pane's offset, and the echo
\* event of that write makes no write back.
ScrollNoFeedback ==
    /\ (obs.act = "editorScroll" /\ obs.user /\ obs.clear) =>
           obs.wNotes = 1 /\ obs.wEditor = 0
    /\ (obs.act = "notesScroll" /\ obs.user /\ obs.clear) =>
           obs.wEditor = 1 /\ obs.wNotes = 0
    /\ (obs.act = "notesScroll" /\ obs.echo) => obs.wEditor = 0

\* C10 amended: the write of the editor's offset is made when
\* editorRef.current is set; a note-pane scroll before any editor has
\* mounted writes nothing.
ScrollNoFeedbackMounted ==
    /\ (obs.act = "editorScroll" /\ obs.user /\ obs.clear) =>
           obs.wNotes = 1 /\ obs.wEditor = 0
    /\ (obs.act = "notesScroll" /\ obs.user /\ obs.clear) =>
           /\ obs.wEditor = IF editorRef # "null" THEN 1 ELSE 0
           /\ obs.wNotes = 0
    /\ (obs.act = "notesScroll" /\ obs.echo) => obs.wEditor = 0

\* The echo of a user's editor scroll has been dispatched and absorbed.
ScrollNoFeedbackWitness ==
    /\ obs.act = "notesScroll"
    /\ obs.echo /\ ~obs.user
    /\ obs.wEditor = 0
    /\ ~isSyncingFromEditor /\ ~isSyncingFromNotes
    /\ editorRef = "live"
    /\ editorTop > 0 /\ notesTop = editorTop

\* C11: with user scrolls only, a handled user scroll of a pane to an offset
\* within the other pane's range leaves the other pane at that offset. The
\* scrolls considered are those made while no scroll event is queued and
\* handled before the other pane scrolls.
ScrollPanesMatched ==
    ~fileSwitched =>
       /\ (obs.act = "editorScroll" /\ ~obs.pending /\ editorTop <= notesMax)
              => notesTop = editorTop
       /\ (obs.act = "notesScroll" /\ obs.user /\ ~obs.echo /\ ~obs.raced
              /\ editorRef = "live" /\ notesTop <= editorMax)
              => editorTop = notesTop

---------------------------------------------------------------------------
(* Properties of getCommentSyntax.                                         *)

HasDot(name) == \E i \in 1..Len(name) : CharAt(name, i) = "."

\* The text after the last '.' of a name that has one.
ExtensionOf(name) ==
    LET last == CHOOSE i \in 1..Len(name) :
                    /\ CharAt(name, i) = "."
                    /\ \A j \in (i + 1)..Len(name) : CharAt(name, j) # "."
    IN  SubSeq(name, last + 1, Len(name))

\* The table of the switch, on a lower-case key.
SyntaxTable(key) ==
    IF key \in {"html", "xml", "svg"} THEN [start |-> "<!--", end |-> "-->"]
    ELSE IF key = "css" THEN [start |-> "/*", end |-> "*/"]
    ELSE IF key \in {"py", "sh", "yaml", "yml", "dockerfile"}
         THEN [start |-> "#", end |-> ""]
    ELSE [start |-> "//", end |-> ""]

\* C12 as stated: the table is applied to the extension, case-insensitively,
\* and a name with no extension at all gets ('//', '').
SyntaxByExtension ==
    synDone =>
        synResult = IF HasDot(synFilename)
                    THEN SyntaxTable(toLowerCase(ExtensionOf(synFilename)))
                    ELSE [start |-> "//", end |-> ""]

\* C12 amended: the key of the table is the text after the last '.', or the
\* whole name when it has no '.'; the result is always one of the four
\* pairs.
SyntaxByLastSegment ==
    synDone =>
        /\ synResult = SyntaxTable(toLowerCase(
                           IF HasDot(synFilename) THEN ExtensionOf(synFilename)
                           ELSE synFilename))
        /\ synResult.start \in {"<!--", "/*", "#", "//"}

\* A mixed-case extension after a dotted stem has been resolved.
SyntaxByLastSegmentWitness ==
    /\ synDone
    /\ synFilename = "a.b.YAML"
    /\ synResult = [start |-> "#", end |-> ""]

\* C26: the two flags are never both set.
FlagsExclusive == ~(isSyncingFromEditor /\ isSyncingFromNotes)

\* The editor has handled a scroll of the user's and has set its flag
\* while a scroll of the user's in the note pane is still queued.
FlagsExclusiveWitness ==
    /\ obs.act = "editorScroll"
    /\ isSyncingFromEditor
    /\ "user" \in notesEvent

\* C27: while no scroll event is queued both flags are clear.
FlagsOnlyWhilePending ==
    notesEvent = {} => ~isSyncingFromEditor /\ ~isSyncingFromNotes

---------------------------------------------------------------------------
(* Properties of the App's note handlers.                                  *)

\* C13: no two notes share (fileId, startLine).
NoDuplicateAnchors ==
    \A i, j \in 1..Len(appNotes) :
        i # j =>
            ~(/\ appNotes[i].fileId = appNotes[j].fileId
              /\ appNotes[i].startLine = appNotes[j].startLine)

\* An add request, from the button or from the editor's action, has met an
\* existing note of its anchor while the App holds the most notes.
NoDuplicateAnchorsWitness ==
    /\ appObs.op \in {"add", "addAction"}
    /\ appObs.existed /\ ~appObs.rejected
    /\ Len(appNotes) = MaxAppNotes
    /\ HasNoteAt(appNotes, appObs.fileId, appObs.startLine)

\* C14: after an accepted add request at an anchor that already had a note,
\* a note of that anchor is there and expanded.
AddFocusesExisting ==
    (appObs.op = "add" /\ appObs.existed /\ ~appObs.rejected) =>
        \E i \in 1..Len(appNotes) :
            /\ appNotes[i].fileId = appObs.fileId
            /\ appNotes[i].startLine = appObs.startLine
            /\ appNotes[i].isExpanded

\* C18: an add request while no file is active, and a rejected HTML export,
\* change none of notes, files, selection and mode.
NoOpChangesNothing ==
    /\ (appObs.op = "add" /\ appObs.fileId = "") =>
           appObs.rejected /\ ~appObs.changed
    /\ (appObs.op = "export" /\ appObs.rejected) => ~appObs.changed

\* Both no-op conditions occur with something there to lose.
NoOpChangesNothingWitness ==
    /\ appObs.op \in {"add", "export"}
    /\ appObs.rejected
    /\ activeFileId = "" \/ appFiles[activeFileId] = "undefined"
    /\ Len(appNotes) > 0

---------------------------------------------------------------------------
(* Properties of the notes file.                                           *)

\* The file holds the text of an array.
StoresArray(file) ==
    /\ file.exists /\ file.readable
    /\ \E a \in StoredArrays(MaxStoredNotes) : JSONstringify(JsonArray(a)) = file.text

\* C17: a missing notes file loads as the empty array, and every load gives
\* an array: the whole stored one or the empty one.
LoadAllOrNothing ==
    ldDone =>
        /\ ~ldFile.exists => ldResult = JsonArray(<<>>)
        /\ ldResult.type = "array"
        /\ \/ ldResult = JsonArray(<<>>)
           \/ /\ StoresArray(ldFile)
              /\ JSONstringify(ldResult) = ldFile.text

---------------------------------------------------------------------------
(* Properties of the persistence of the notes.                             *)

SaveQuiescent == svTimers = <<>> /\ svWrites = EmptyBag

\* C16: once nothing is pending, the notes file of every workspace that was
\* edited holds the notes as they were at its last edit.
NotesPersisted ==
    SaveQuiescent =>
        \A w \in Workspaces :
            svHist.edited[w] =>
                svDisk[w] = StoredFile(JSONstringify(JsonArray(svHist.lastEdit[w])))

\* C30: the notes a save writes were all created in the workspace whose
\* notes file it writes.
WritesOwnNotes ==
    svObs.op = "fire" =>
        \A i \in 1..Len(svObs.wrote) : svHist.owner[svObs.wrote[i]] = svObs.target

\* A save of a workspace's note is issued after another workspace was
\* opened or a repository cloned, while notes of elsewhere exist.
WritesOwnNotesWitness ==
    /\ svObs.op = "fire"
    /\ Len(svObs.wrote) > 0
    /\ rootHandle # svObs.target
    /\ \E n \in 1..Len(svHist.owner) : svHist.owner[n] # svObs.target

\* C20: no two writes of the same file are in progress at once.
WritesSequential ==
    \A v, w \in BagToSet(svWrites) :
        /\ CopiesIn(w, svWrites) = 1
        /\ (v.kind = w.kind /\ v.target = w.target) => v = w

---------------------------------------------------------------------------
(* Properties of the I/O notifications.                                    *)

\* C19: an action whose I/O failed has raised an error toast.
FailureNotified ==
    ioObs.failed => ioObs.toast.type = "error"

---------------------------------------------------------------------------
(* Properties of the identity and the protection of the notes.             *)

\* C21: the notes the App holds have pairwise distinct ids.
IdsDistinct ==
    \A i, j \in 1..Len(appNotes) : i # j => appNotes[i].id # appNotes[j].id

\* A note without the field a toggle changes.
Kept(n) == [id |-> n.id, fileId |-> n.fileId, startLine |-> n.startLine,
            endLine |-> n.endLine, content |-> n.content,
            createdAt |-> n.createdAt]

\* C22: a step taken in visitor mode creates no note, deletes none, changes
\* no note's content and changes no loaded file's content.
VisitorReadOnly ==
    [][isReadOnly =>
          /\ Len(appNotes') = Len(appNotes)
          /\ \A i \in 1..Len(appNotes) : Kept(appNotes'[i]) = Kept(appNotes[i])
          /\ \A f \in FileIds :
                 appFiles[f] # "undefined" => appFiles'[f] = appFiles[f]]_vars

\* C28: a step in which an add request creates a note leaves the notes held
\* before it, in order, followed by one new note of the active file, empty
\* and expanded.
AddPreservesNotes ==
    [][(/\ appObs'.op \in {"add", "addAction"}
        /\ Len(appNotes') > 0
        /\ \A i \in 1..Len(appNotes) :
               Kept(appNotes[i]) # Kept(appNotes'[Len(appNotes')]))
          => /\ Len(appNotes') = Len(appNotes) + 1
             /\ SubSeq(appNotes', 1, Len(appNotes)) = appNotes
             /\ appNotes'[Len(appNotes')].fileId = activeFileId
             /\ appNotes'[Len(appNotes')].content = ""
             /\ appNotes'[Len(appNotes')].isExpanded]_vars

\* The handlers of the current render, in admin mode.
AdminRender == [Render EXCEPT !.isReadOnly = FALSE]

\* The ids the handlers may be given: those of the notes, and one of no note.
GivenIds == {appNotes[i].id : i \in 1..Len(appNotes)} \cup {0}

\* The notes without the i-th.
Without(ns, i) == SubSeq(ns, 1, i - 1) \o SubSeq(ns, i + 1, Len(ns))

KthOther(id, k) ==
    CHOOSE i \in 1..Len(appNotes) :
        /\ appNotes[i].id # id
        /\ Cardinality({j \in 1..i : appNotes[j].id # id}) = k

Malformed == {"", "o", "o/", "a/b/c", "https://gitlab.com/o/r"}

\* C25: a clone request with a malformed identifier issues no fetch and
\* leaves mode, root handle, workspace name, files, notes and active file as
\* they were.
MalformedCloneRejected ==
    (clObs.op = "clone" /\ clObs.repoString \in Malformed) =>
        /\ ~clObs.fetched
        /\ WorkspaceState(clApp) = clObs.before

\* C29: once no load is in flight, the tree is the initial tree with every
\* change applied to it: each content that arrived in its own file, every
\* toggle and every edit made meanwhile.
LoadsKeepTree == lzLoads = {} => lzFiles = lzExpect

---------------------------------------------------------------------------
(* Specifications: one per component, the others at rest.                  *)

ExportIdle ==
    /\ expContent = ""
    /\ expFilename = "m.js"
    /\ expNotes = <<>>
    /\ expResult = ""
    /\ expDone = FALSE

LayoutIdle ==
    /\ layNotes = <<>>
    /\ layLineHeight = 24
    /\ layPositions = <<>>
    /\ layNextId = 1

ScrollIdle ==
    /\ isSyncingFromEditor = FALSE
    /\ isSyncingFromNotes = FALSE
    /\ editorRef = "null"
    /\ editorTop = 0
    /\ notesTop = 0
    /\ editorMax = 1
    /\ notesMax = 1
    /\ notesEvent = {}
    /\ obs = NoObs
    /\ fileSwitched = FALSE

SyntaxIdle ==
    /\ synFilename = ""
    /\ synResult = NoSyntax
    /\ synDone = FALSE

SaveIdle ==
    /\ isLocalMode = FALSE
    /\ rootHandle = "none"
    /\ svNotes = <<>>
    /\ lsNotes = <<>>
    /\ svTimers = <<>>
    /\ svWrites = EmptyBag
    /\ svDisk = [w \in Workspaces |-> MissingFile]
    /\ svNextId = 1
    /\ svHist = [burst |-> 0, issued |-> 0, last |-> <<>>, root |-> "none",
                 edited |-> [w \in Workspaces |-> FALSE],
                 lastEdit |-> [w \in Workspaces |-> <<>>],
                 owner |-> <<>>]
    /\ svObs = NoSaveObs

LoadIdle ==
    /\ ldFile = MissingFile
    /\ ldResult = JsonNull
    /\ ldDone = FALSE

IoIdle ==
    /\ ioToasts = <<>>
    /\ ioObs = NoIoObs

CloneIdle ==
    /\ clApp = [isLocalMode |-> FALSE, rootHandle |-> "null",
                workspaceName |-> "null", files |-> "sample",
                notes |-> StoredNotes("localStorage"), activeFileId |-> "",
                isReadOnly |-> FALSE, lsFiles |-> "sample",
                lsNotes |-> StoredNotes("localStorage")]
    /\ clFetches = 0
    /\ clObs = NoCloneObs

LazyIdle ==
    /\ lzLocal = FALSE
    /\ lzFiles = [content |-> [f \in FileIds |-> "undefined"], isOpen |-> TRUE]
    /\ lzActive = ""
    /\ lzLoads = {}
    /\ lzExpect = lzFiles

AppIdle ==
    /\ appNotes = <<>>
    /\ appFiles = [f \in FileIds |-> "code"]
    /\ activeFileId = ""
    /\ selection = NoSelection
    /\ isReadOnly = FALSE
    /\ now = 1
    /\ editorProps = NoEditor
    /\ appObs = NoAppObs

ExportSpecInit == ExportInit /\ LayoutIdle /\ ScrollIdle /\ SyntaxIdle /\ AppIdle
    /\ LoadIdle
    /\ SaveIdle
    /\ IoIdle
    /\ CloneIdle
    /\ LazyIdle

SpecExport == ExportSpecInit /\ [][ExportNext]_vars

LayoutSpecInit == LayoutInit /\ ExportIdle /\ ScrollIdle /\ SyntaxIdle /\ AppIdle
    /\ LoadIdle
    /\ SaveIdle
    /\ IoIdle
    /\ CloneIdle
    /\ LazyIdle

SpecLayout == LayoutSpecInit /\ [][LayoutNext]_vars

ScrollSpecInit == ScrollInit /\ ExportIdle /\ LayoutIdle /\ SyntaxIdle /\ AppIdle
    /\ LoadIdle
    /\ SaveIdle
    /\ IoIdle
    /\ CloneIdle
    /\ LazyIdle

SpecScroll == ScrollSpecInit /\ [][ScrollNext]_vars

SyntaxSpecInit == SyntaxInit /\ ExportIdle /\ LayoutIdle /\ ScrollIdle /\ AppIdle
    /\ LoadIdle
    /\ SaveIdle
    /\ IoIdle
    /\ CloneIdle
    /\ LazyIdle

SpecSyntax == SyntaxSpecInit /\ [][SyntaxNext]_vars

AppSpecInit == AppInit /\ ExportIdle /\ LayoutIdle /\ ScrollIdle /\ SyntaxIdle
    /\ LoadIdle
    /\ SaveIdle
    /\ IoIdle
    /\ CloneIdle
    /\ LazyIdle

SpecApp == AppSpecInit /\ [][AppNext]_vars

SpecAppFrame == AppSpecInit /\ [][FrameNext]_vars

LoadSpecInit ==
    LoadInit /\ ExportIdle /\ LayoutIdle /\ ScrollIdle /\ SyntaxIdle /\ AppIdle
    /\ SaveIdle
    /\ IoIdle
    /\ CloneIdle
    /\ LazyIdle

SpecLoad == LoadSpecInit /\ [][LoadNext]_vars

SaveSpecInit ==
    SaveInit /\ ExportIdle /\ LayoutIdle /\ ScrollIdle /\ SyntaxIdle /\ AppIdle
    /\ LoadIdle
    /\ IoIdle
    /\ CloneIdle
    /\ LazyIdle

SpecSave == SaveSpecInit /\ [][SaveNext]_vars

IoSpecInit ==
    IoInit /\ ExportIdle /\ LayoutIdle /\ ScrollIdle /\ SyntaxIdle /\ AppIdle
    /\ LoadIdle
    /\ SaveIdle
    /\ CloneIdle
    /\ LazyIdle

SpecIo == IoSpecInit /\ [][IoNext]_vars

CloneSpecInit ==
    CloneInit /\ ExportIdle /\ LayoutIdle /\ ScrollIdle /\ SyntaxIdle /\ AppIdle
    /\ LoadIdle
    /\ SaveIdle
    /\ IoIdle
    /\ LazyIdle

SpecClone == CloneSpecInit /\ [][CloneNext]_vars

LazySpecInit ==
    LazyInit /\ ExportIdle /\ LayoutIdle /\ ScrollIdle /\ SyntaxIdle /\ AppIdle
    /\ LoadIdle
    /\ SaveIdle
    /\ IoIdle
    /\ CloneIdle

SpecLazy == LazySpecInit /\ [][LazyNext]_vars

====
